---------------------------- MODULE Spec2Model ----------------------------
(***************************************************************************)
(* Model of the news ingestion pipeline of huntington-news-catcher:        *)
(*   - NewsScraper.run_scrape and the ScrapeLog row it maintains,          *)
(*   - the persistence paths (_scrape_rss, _scrape_website,                *)
(*     fetch_from_newsapi, fetch_from_rss_feeds, fetch_huntington_news),   *)
(*   - AIProcessor.extract_information,                                    *)
(*   - RSSFeedService._remove_duplicates / _titles_are_similar,            *)
(*   - Geolocator.geocode with its cache and rate limiter.                 *)
(*                                                                         *)
(* The specifications of the module:                                       *)
(*   Spec      the pipeline (scrape runs and the news_items table),        *)
(*   SpecDedup the title de-duplication of the RSS service,                *)
(*   SpecGeo   one Geolocator instance,                                    *)
(*   SpecWeb   _scrape_website statement by statement,                     *)
(*   SpecRss   _scrape_rss entry by entry on feeds of up to 25 entries,    *)
(*   SpecAI    one AIProcessor instance,                                   *)
(*   SpecAgg   fetch_huntington_news call by call,                         *)
(*   SpecParse the line-prefix parser of AIProcessor,                      *)
(*   SpecTwo   the two Geolocator instances (main.py, worker.py),          *)
(*   SpecLive  the pipeline with the scheduling of a run: a run that can   *)
(*             take a step eventually takes one,                           *)
(*   SpecRace  two request handlers in _respect_rate_limit of the shared   *)
(*             Geolocator, statement by statement,                         *)
(*   SpecSave  fetch_from_rss_feeds on batches of up to two articles.      *)
(* Strings that the code inspects character by character (location texts,  *)
(* titles) are sequences of one-character strings.                         *)
(*                                                                         *)
(* What lies outside the code is nondeterministic: the answers of the      *)
(* text-understanding provider, of the geocoding providers, what a feed,   *)
(* a page or the search API delivers, and whether the browser starts.      *)
(* Runs of run_scrape follow one another (a run is triggered when no other *)
(* is in progress); the request handlers that fetch news run between them. *)
(***************************************************************************)
EXTENDS Integers, Sequences, FiniteSets, Bags, TLC

VARIABLES
    \* ---- AIProcessor (ai_processor.py) ----
    use_openai,        \* bool(OPENAI_API_KEY)
    use_anthropic,     \* bool(ANTHROPIC_API_KEY)
    \* ---- database ----
    store,             \* news_items table: a bag of NewsItem rows
    log,               \* the ScrapeLog row of the current run (None before the first)
    writes,            \* statuses committed to that row, in commit order
    \* ---- NewsScraper.run_scrape: position and locals ----
    pc,                \* "idle" | "started" | "browser" | "loop" | "scraping" | "done" | "crashed"
    sources,           \* the active DataSource rows read at line 62
    idx,               \* index in sources of the source of the for loop
    total,
    successful,
    errors,
    log_details,
    kind,              \* strategy of the source being scraped: "rss" | "web"
    remaining,         \* entries / article links of the source still to process
    items,             \* len(items) of the source being scraped
    considered,        \* entries of that source processed so far
    outcomes,          \* history: per source of the run, what happened to it
    \* ---- RSSFeedService._remove_duplicates ----
    articles,          \* the batch handed to _remove_duplicates
    unique_articles,   \* what it returned
    dedup_pc,          \* "input" before the call, "done" after it
    \* ---- Geolocator (geolocation.py) ----
    google_api_key,    \* bool(GOOGLE_MAPS_API_KEY)
    location_cache,    \* dict: lowercased text -> coords
    last_request_time,
    now,               \* time.time()
    lastCall,          \* the last geocode call: its input, result and provider traffic
    sent_at,           \* history: when the last provider request was sent
    \* ---- NewsScraper._scrape_website: position and locals ----
    web_pc,            \* "idle" | "try" | "page" | "goto" | "select" | "articles" | "returned"
    context,           \* the context of the call: "none" | "open" | "closed"
    contexts,          \* contexts open in the browser
    article_links,     \* len(article_links) still to visit
    web_items,         \* len(items)
    web_exit,          \* how the call returned: "none" | "success" | "timeout" | "exception"
    \* ---- NewsScraper._scrape_rss: position, locals and history ----
    rss_pc,            \* "idle" | "loop" | "returned"
    entries,           \* len(feed.entries)
    rss_left,          \* entries of feed.entries[:20] still to process
    rss_items,         \* len(items)
    rss_seen,          \* history: entries processed so far, by what became of them
    \* ---- AIProcessor.extract_information: the last call ----
    extraction,        \* its text, the provider it called and how, its result
    \* ---- NewsScraper.fetch_huntington_news: position, locals and history ----
    agg_pc,            \* "idle" | "rss" | "dedup" | "save_rss" | "newsapi" | "save_api"
                       \* | "fallback" | "returned"
    pending,           \* per article the search API delivered, the rows its loop commits
    agg_items,         \* len(all_items)
    collected,         \* history: the sources whose candidates have been collected
    deduped,           \* history: the sources over whose batch the deduplicator ran
    \* ---- AIProcessor._extract_structured_data: the last call ----
    parse,             \* the lines of the provider's answer and the result
    \* ---- the Geolocator instances of main.py and worker.py ----
    geolocators,       \* per instance: its location_cache and last_request_time
    lastOp,            \* the last call on one of them
    \* ---- history of the pipeline (Spec) ----
    commits,           \* db.commit() calls that have written to news_items so far
    \* ---- request handlers that call geocode on the shared Geolocator ----
    callers,           \* per handler thread: its position in _respect_rate_limit
                       \* and its locals
    requests,          \* history: the times at which provider requests were sent
    \* ---- NewsScraper.fetch_from_rss_feeds: the last call ----
    rss_call           \* the articles it was given, where a commit failed, what it returned

aiVars    == <<use_openai, use_anthropic>>
runVars   == <<log, writes, pc, sources, idx, total, successful, errors,
               log_details, kind, remaining, items, considered, outcomes>>
pipeVars  == <<aiVars, store, runVars>>
dedupVars == <<articles, unique_articles, dedup_pc>>
geoVars   == <<google_api_key, location_cache, last_request_time, now, lastCall,
               sent_at>>
webVars   == <<web_pc, context, contexts, article_links, web_items, web_exit>>
rssVars   == <<rss_pc, entries, rss_left, rss_items, rss_seen>>
aggVars   == <<agg_pc, pending, agg_items, collected, deduped>>
twoVars   == <<geolocators, lastOp>>
raceVars  == <<callers, requests>>
lateVars  == <<parse, twoVars, commits, raceVars, rss_call>>
noCommits == <<webVars, rssVars, extraction, aggVars, parse, twoVars, raceVars, rss_call>>
moreVars  == <<webVars, rssVars, extraction, aggVars, lateVars>>
vars      == <<pipeVars, dedupVars, geoVars, moreVars>>

None == "None"          \* Python None / SQL NULL, where the other values are strings

Min(a, b) == IF a <= b THEN a ELSE b

SeqsUpTo(S, n) == UNION {[1..k -> S] : k \in 0..n}

\* d.get(key, default) of a dict, modelled as a function on the keys it holds
Get(d, key, default) == IF key \in DOMAIN d THEN d[key] ELSE default

(***************************************************************************)
(* AIProcessor (ai_processor.py).  A result dict is a function from the    *)
(* keys it holds to their values.  confidence_score is in tenths (3 is     *)
(* 0.3).  A text is its sequence of lines, the empty string being <<>>.    *)
(* A location is a sequence of characters.  description and summary are    *)
(* held as the number of characters of the text they are a prefix of.      *)
(***************************************************************************)
valid_categories == {"News", "Business", "Cause", "Event", "Crime & Safety"}

_create_empty_result ==
    [title |-> "", headline |-> "", description |-> 0, summary |-> 0, category |-> "News",
     location |-> <<>>, confidence_score |-> 0, error |-> "Failed to process content"]

\* The lines texts are made of, with their number of characters: the empty
\* line, a blank, a short line and two long ones.
Chars(line) ==
    CASE line = "" -> 0
      [] line = " " -> 1
      [] line = "T1" -> 2
      [] line = "L300" -> 300
      [] line = "L600" -> 600

\* len(text): the lines and the newlines between them
RECURSIVE TextLen(_)
TextLen(text) ==
    IF text = <<>> THEN 0
    ELSE Chars(Head(text)) + (IF Len(text) > 1 THEN 1 ELSE 0) + TextLen(Tail(text))

\* lines[0] of the stripped non-empty lines; text[:50] when there is none (the
\* blank texts of the model are one line of at most 50 characters)
FirstNonBlank(text) ==
    LET nb == SelectSeq(text, LAMBDA l : l \notin {"", " "})
    IN  IF nb # <<>> THEN nb[1] ELSE text[1]

DescriptionLimit == 500
SummaryLimit == 200

\* variant: the basic extraction names a place
_basic_extraction_located(text, source_url) ==
    [title |-> FirstNonBlank(text), headline |-> "",
     description |-> IF TextLen(text) > DescriptionLimit THEN DescriptionLimit
                     ELSE TextLen(text),
     summary |-> IF TextLen(text) > SummaryLimit THEN SummaryLimit ELSE TextLen(text),
     category |-> "News", location |-> <<"a">>,
     confidence_score |-> 3, source_url |-> source_url]

_basic_extraction(text, source_url) ==
    [title |-> FirstNonBlank(text), headline |-> "",
     description |-> IF TextLen(text) > DescriptionLimit THEN DescriptionLimit
                     ELSE TextLen(text),
     summary |-> IF TextLen(text) > SummaryLimit THEN SummaryLimit ELSE TextLen(text),
     category |-> "News", location |-> <<>>,
     confidence_score |-> 3, source_url |-> source_url]

\* One line of a provider answer that is not JSON: line.prefix is the line up to
\* its first colon, line.value the stripped rest, line.number the float it parses
\* to in tenths (only on a line whose rest is a number).
\* float('nan'): a float that no comparison orders
NaN == 99

\* Python's max(a, b) and min(a, b) of two floats: b when b > a (b < a), else a
PyMax(a, b) == IF a # NaN /\ b # NaN /\ b > a THEN b ELSE a

PyMin(a, b) == IF a # NaN /\ b # NaN /\ b < a THEN b ELSE a

\* the branch of the if/elif chain a stripped line takes (lines 159-178)
KnownPrefix(prefix) ==
    CASE prefix \in {"Title:", "title:"} -> "title"
      [] prefix \in {"Headline:", "headline:"} -> "headline"
      [] prefix \in {"Description:", "description:"} -> "description"
      [] prefix \in {"Summary:", "summary:"} -> "summary"
      [] prefix \in {"Category:", "category:"} -> "category"
      [] prefix \in {"Location:", "location:"} -> "location"
      [] prefix \in {"Confidence:", "confidence:"} -> "confidence"
      [] OTHER -> "none"

ApplyLine(result, line) ==
    IF KnownPrefix(line.prefix) = "title" THEN [result EXCEPT !.title = line.value]
    ELSE IF KnownPrefix(line.prefix) = "headline"
        THEN [result EXCEPT !.headline = line.value]
    ELSE IF KnownPrefix(line.prefix) = "description"
        THEN [result EXCEPT !.description = Chars(line.value)]
    ELSE IF KnownPrefix(line.prefix) = "summary"
        THEN [result EXCEPT !.summary = Chars(line.value)]
    ELSE IF KnownPrefix(line.prefix) = "category"
        THEN [result EXCEPT !.category =
                 IF line.value \in valid_categories THEN line.value ELSE "News"]
    ELSE IF KnownPrefix(line.prefix) = "location"
        THEN [result EXCEPT !.location = line.value]
    ELSE IF KnownPrefix(line.prefix) = "confidence"
        THEN IF "number" \in DOMAIN line
             THEN [result EXCEPT !.confidence_score = PyMin(PyMax(line.number, 0), 10)]
             ELSE result
    ELSE result

RECURSIVE ApplyLines(_, _)
ApplyLines(result, lines) ==
    IF lines = <<>> THEN result
    ELSE ApplyLines(ApplyLine(result, Head(lines)), Tail(lines))

_extract_structured_data(lines, source_url) ==
    ApplyLines([title |-> "", headline |-> "", description |-> 0, summary |-> 0,
                category |-> "News",
                location |-> <<>>, confidence_score |-> 5, source_url |-> source_url],
               lines)

\* _process_with_openai and _process_with_claude differ in the client they call
\* only.  resp is what the provider call did: raise ("error"), answer JSON
\* ("json": obj is what json.loads returns) or answer other text ("text").
\* variant: the exception of the provider call leaves the method
OnException_propagated == [raised |-> TRUE]

\* except Exception as e: log, return self._create_empty_result()
OnException == _create_empty_result

ProcessWithProvider(resp, source_url) ==
    IF resp.kind = "error" THEN OnException
    ELSE IF resp.kind = "json" THEN resp.obj
    ELSE _extract_structured_data(resp.lines, source_url)

_process_with_openai(resp, source_url) == ProcessWithProvider(resp, source_url)

_process_with_claude(resp, source_url) == ProcessWithProvider(resp, source_url)

\* __init__ lines 23-30: the client that is set up.  self holds the two
\* flags of lines 20-21.
Selected(self) ==
    IF self.use_openai THEN "openai"
    ELSE IF self.use_anthropic THEN "anthropic"
    ELSE "none"

\* variant: the secondary provider is asked first
Branch_secondary_first(self, text) ==
    IF text = <<>> THEN "empty"
    ELSE IF self.use_anthropic THEN "anthropic"
    ELSE IF self.use_openai THEN "openai"
    ELSE "basic"

\* the branch extract_information takes (lines 43-55)
Branch(self, text) ==
    IF text = <<>> THEN "empty"
    ELSE IF self.use_openai THEN "openai"
    ELSE IF self.use_anthropic THEN "anthropic"
    ELSE "basic"

extract_information(self, text, source_url, resp) ==
    LET branch == Branch(self, text)
    IN  IF branch = "empty" THEN _create_empty_result
        ELSE IF branch = "openai" THEN _process_with_openai(resp, source_url)
        ELSE IF branch = "anthropic" THEN _process_with_claude(resp, source_url)
        ELSE _basic_extraction(text, source_url)

AIProcessors == [use_openai : BOOLEAN, use_anthropic : BOOLEAN]

\* the AIProcessor of the state
ai_processor == [use_openai |-> use_openai, use_anthropic |-> use_anthropic]

\* ---- what the text-understanding provider may answer (model inputs) ----
MaxLines == 2

JsonFull ==
    [title : {"T1"}, category : {"News", "Politics"},
     location : {<<>>, <<" ">>, <<"a">>}, confidence_score : {9},
     excluded_reason : {"", "national news"}]

JsonKeys == {"title", "category", "location", "confidence_score", "excluded_reason"}

\* a dict with all the keys asked for, or with one of them left out
JsonObjects ==
    {[k \in K |-> o[k]] : o \in JsonFull,
                          K \in {JsonKeys} \cup {JsonKeys \ {k} : k \in JsonKeys \ {"title"}}}

\* json.loads returned a value that is not a dict (a list, a number)
NotDict == [notdict |-> TRUE]

AnswerLines ==
    {[prefix |-> "Category:", value |-> "Politics"],
     [prefix |-> "Location:", value |-> <<"a">>],
     [prefix |-> "Title:", value |-> "T1"]}

ProviderResponses ==
    {[kind |-> "error"]}
    \cup {[kind |-> "json", obj |-> o] : o \in JsonObjects \cup {NotDict}}
    \cup {[kind |-> "text", lines |-> ls] : ls \in SeqsUpTo(AnswerLines, MaxLines)}

\* The results extract_information can return for a text under the configuration.
ExtractionResults(self, text, source_url) ==
    {extract_information(self, text, source_url, resp) : resp \in ProviderResponses}


(***************************************************************************)
(* What the pipeline sees of Geolocator.geocode (geolocation.py:87-112):   *)
(* None for an empty or whitespace-only text, else None or a coordinate    *)
(* pair, depending on the cache and on the provider.  SpecGeo models the   *)
(* cache and the provider traffic behind it.                               *)
(***************************************************************************)
NotFound == <<>>        \* geocode returned None

NYPoint    == <<"40.87", "-73.43">>     \* a point the provider places in New York
OtherPoint == <<"33.66", "-118.00">>    \* a point it places in another state

Points == {NYPoint, OtherPoint}

\* variant: only the empty string is refused, blanks are not stripped
IsBlank_unstripped(location_text) == location_text = <<>>

\* not location_text or location_text.strip() == ""
IsBlank(location_text) == \A i \in DOMAIN location_text : location_text[i] = " "

\* the pipeline stores the pair it is given: one point stands for all of them
GeocodeReturns(location_text) ==
    IF IsBlank(location_text) THEN {NotFound} ELSE {NotFound, NYPoint}

(***************************************************************************)
(* The news_items table and the code that writes to it (news_scraper.py).  *)
(* A row holds the columns the claims read and located_by, a history       *)
(* field: which lookup gave the row its coordinates ("extracted": the      *)
(* location of the extraction result, "requested": the location the        *)
(* caller asked for, "feed": the RSS service, "fixed": a literal).         *)
(***************************************************************************)
NewsItemColumns ==
    {"id", "title", "headline", "description", "summary", "category", "latitude",
     "longitude", "source_url", "date_time", "confidence_score", "geom",
     "created_at", "updated_at"}

\* variant: the constructor takes any keyword
NewsItemRaises_never(kwargs) == FALSE

\* The declarative constructor raises TypeError on a keyword that is no attribute
\* of the mapped class.
NewsItemRaises(kwargs) == ~(kwargs \subseteq NewsItemColumns)

ScrapeKwargs ==
    {"title", "headline", "description", "summary", "category", "latitude",
     "longitude", "source_url", "date_time", "confidence_score"}

RssFeedKwargs ==
    {"title", "headline", "summary", "date_time", "latitude", "longitude",
     "location", "source_name", "source_url", "category"}

NewsItem(title, category, coords, source_url, located_by) ==
    [title |-> title, category |-> category,
     latitude |-> IF coords = NotFound THEN None ELSE coords[1],
     longitude |-> IF coords = NotFound THEN None ELSE coords[2],
     source_url |-> source_url, located_by |-> located_by]

\* variant: the check of the coordinates lets everything through
NoCoordinates_never(coords) == FALSE

\* lat is None or lng is None
NoCoordinates(coords) == coords = NotFound

\* 'excluded_reason' in result and result['excluded_reason']
IsExcluded(result) == Get(result, "excluded_reason", "") # ""

\* The body of the entry loop of _scrape_rss (lines 184-232) and of the article
\* loop of _scrape_website (lines 345-382): the rows it commits, none or one.
\* result is what extract_information returned, g what geocode returns for
\* result['location'] when it is called.  An exception is caught per entry.
ScrapeEntry(source_category, entry, result, g) ==
    IF "notdict" \in DOMAIN result THEN <<>>
    ELSE IF IsExcluded(result) THEN <<>>
    ELSE LET coords == IF Get(result, "location", <<>>) # <<>> THEN g ELSE NotFound
         IN  IF NoCoordinates(coords) THEN <<>>
             ELSE IF NewsItemRaises(ScrapeKwargs) THEN <<>>
             ELSE <<NewsItem(Get(result, "title", entry.title),
                             Get(result, "category", source_category),
                             coords, entry.link, "extracted")>>

\* The body of the article loop of fetch_from_newsapi (lines 683-741).  g2 is
\* what geocode returns for the requested location.
NewsapiArticle(location, article, result, g, g2) ==
    IF "notdict" \in DOMAIN result THEN <<>>
    ELSE IF IsExcluded(result) THEN <<>>
    ELSE LET first  == IF Get(result, "location", <<>>) # <<>> THEN g ELSE NotFound
             coords == IF NoCoordinates(first) THEN g2 ELSE first
         IN  IF NoCoordinates(coords) THEN <<>>
             ELSE IF NewsItemRaises(ScrapeKwargs) THEN <<>>
             ELSE <<NewsItem(Get(result, "title", ""), Get(result, "category", "News"),
                             coords, article.link,
                             IF NoCoordinates(first) THEN "requested" ELSE "extracted")>>

\* ---- feed entries, article links and API articles (model inputs) ----
FeedEntries == {[title |-> "T1", link |-> "u1"], [title |-> "T1", link |-> "u2"]}

\* full_text of an RSS entry is never empty; the content of a web page may be
EntryTexts(source_kind) == IF source_kind = "rss" THEN {<<"T1">>} ELSE {<<>>, <<"T1">>}

\* What one entry of a source can lead to: no row, or one row.
EntryOutcomes(self, source_kind, source_category) ==
    UNION {UNION {{ScrapeEntry(source_category, e, r, g) :
                      g \in GeocodeReturns(Get(r, "location", <<>>))} :
                  r \in ExtractionResults(self, t, e.link)} :
           e \in FeedEntries, t \in EntryTexts(source_kind)}

RequestedLocations == {<<"a">>}

NewsapiOutcomes(self, location) ==
    UNION {UNION {{NewsapiArticle(location, a, r, g, g2) :
                      g \in GeocodeReturns(Get(r, "location", <<>>)),
                      g2 \in GeocodeReturns(location)} :
                  r \in ExtractionResults(self, <<"T1">>, a.link)} :
           a \in FeedEntries}


\* ---- bounds of the pipeline model ----
NumSources  == 2     \* DataSource rows that can be active
MaxFeedLen  == 1     \* entries a feed or a page delivers
MaxArticles == 1     \* articles the search API delivers
MaxStore    == 2     \* rows the feeds and the API add over a behaviour
ShortError  == 150   \* len(str(e)) of a short exception message
LongError   == 250   \* len(str(e)) of a long one

RECURSIVE BagOfSeq(_)
BagOfSeq(sq) == IF sq = <<>> THEN EmptyBag ELSE SetToBag({Head(sq)}) (+) BagOfSeq(Tail(sq))

RECURSIVE Flatten(_)
Flatten(sq) == IF sq = <<>> THEN <<>> ELSE Head(sq) \o Flatten(Tail(sq))

\* rows in the table that came from a feed, a page or the API
Fetched(st) == BagCardinality(st) - BagCardinality([r \in {x \in BagToSet(st) : x.located_by = "fixed"} |-> st[r]])

(***************************************************************************)
(* NewsScraper._update_log (lines 423-454) and the ScrapeLog row.          *)
(* log is the scrape_logs table restricted to the current run: no row or   *)
(* one.  log_details is kept as the list of lines that is joined.          *)
(***************************************************************************)
TerminalStatuses == {"completed", "completed_with_errors"}

\* variant: every update stamps the end time
_update_log_stamps(rows, status, tot, succ, errs, details) ==
    IF rows = <<>> THEN rows
    ELSE <<[status |-> status, total_items |-> tot, successful_items |-> succ,
            error_items |-> errs, log_details |-> details, end_time |-> "set"]>>

_update_log(rows, status, tot, succ, errs, details) ==
    IF rows = <<>> THEN rows
    ELSE <<[status |-> status, total_items |-> tot, successful_items |-> succ,
            error_items |-> errs, log_details |-> details,
            end_time |-> IF status \in TerminalStatuses THEN "set" ELSE rows[1].end_time]>>

\* what a commit of _update_log adds to the statuses persisted for the row
Written(rows, status) == IF rows = <<>> THEN writes ELSE Append(writes, status)

Line(k, source, n) == [kind |-> k, source |-> source, n |-> n]

\* str(e)[:200]
ErrorLimit == 200

\* variant: the message is kept whole
error_msg_whole(length) == length

error_msg(length) == Min(length, ErrorLimit)

\* variant: the final status ignores the error count
FinalStatus_completed(errs) == "completed"

\* status of the final update (line 112)
FinalStatus(errs) == IF errs = 0 THEN "completed" ELSE "completed_with_errors"

\* variant: the updates of the loop write the initial status again
ProgressStatus_started == "started"

\* status of the updates before and inside the loop (lines 75, 106)
ProgressStatus == "in_progress"

\* variant: a source that gave no items is counted twice
Counted_twice(n, succ, errs) ==
    IF n > 0 THEN [successful |-> succ + 1, errors |-> errs]
    ELSE [successful |-> succ + 1, errors |-> errs + 1]

\* variant: a source that gave no items is counted as successful
Counted_lenient(n, succ, errs) == [successful |-> succ + 1, errors |-> errs]

\* lines 92-97: how a source that returned n items is counted
Counted(n, succ, errs) ==
    IF n > 0 THEN [successful |-> succ + 1, errors |-> errs]
    ELSE [successful |-> succ, errors |-> errs + 1]

\* feed.entries[:20] and article_links[:10]
RssEntryCap == 20

ArticleCap == 10

\* DataSource.category of the configured sources
SourceCategories == {"News"}

SourceCategory(source) == CHOOSE c \in SourceCategories : TRUE

\* the outcomes of one entry and of the articles of one API answer, tabulated
EntryOutcomeTable ==
    [self \in AIProcessors, k \in {"rss", "web"}, c \in SourceCategories |->
        EntryOutcomes(self, k, c)]

ApiOutcomeTable ==
    [self \in AIProcessors, location \in RequestedLocations |->
        SeqsUpTo(NewsapiOutcomes(self, location), MaxArticles)]

\* main.py trigger_scrape (266-278) and worker.py scrape_news_task (70-75): a new
\* ScrapeLog row with status started, then run_scrape is scheduled.
trigger_scrape ==
    /\ pc \in {"idle", "done", "crashed"}
    /\ log' = <<[status |-> "started", total_items |-> 0, successful_items |-> 0,
                 error_items |-> 0, log_details |-> <<>>, end_time |-> None]>>
    /\ writes' = <<"started">>
    /\ outcomes' = <<>>
    /\ pc' = "started"
    /\ UNCHANGED <<sources, idx, total, successful, errors, log_details, kind,
                   remaining, items, considered>>
    /\ UNCHANGED <<aiVars, store, dedupVars, geoVars, moreVars>>

\* run_scrape lines 59-75: read the active sources; none: finish at once.
RunStart ==
    /\ pc = "started"
    /\ \E n \in 0..NumSources :
          /\ sources' = [i \in 1..n |-> i]
          /\ IF n = 0
             THEN /\ log' = _update_log(log, "completed", 0, 0, 0,
                                        <<Line("No active data sources found", 0, 0)>>)
                  /\ writes' = Written(log, "completed")
                  /\ pc' = "done"
                  /\ UNCHANGED <<total, successful, errors, log_details>>
             ELSE /\ total' = n
                  /\ successful' = 0
                  /\ errors' = 0
                  /\ log_details' = <<>>
                  /\ log' = _update_log(log, ProgressStatus, n, 0, 0,
                                        <<Line("Scraping in progress", 0, 0)>>)
                  /\ writes' = Written(log, ProgressStatus)
                  /\ pc' = "browser"
    /\ idx' = 1
    /\ UNCHANGED <<kind, remaining, items, considered, outcomes>>
    /\ UNCHANGED <<aiVars, store, dedupVars, geoVars, moreVars>>

\* lines 78-79: the browser engine starts ...
LaunchBrowser ==
    /\ pc = "browser"
    /\ pc' = "loop"
    /\ UNCHANGED <<log, writes, sources, idx, total, successful, errors, log_details,
                   kind, remaining, items, considered, outcomes>>
    /\ UNCHANGED <<aiVars, store, dedupVars, geoVars, moreVars>>

\* ... or async_playwright / chromium.launch raises: run_scrape ends with the
\* exception, its locals are gone and the row stays as line 75 wrote it.
LaunchFails ==
    /\ pc = "browser"
    /\ pc' = "crashed"
    /\ idx' = 1 /\ total' = 0 /\ successful' = 0 /\ errors' = 0 /\ log_details' = <<>>
    /\ UNCHANGED <<log, writes, sources, kind, remaining, items, considered, outcomes>>
    /\ UNCHANGED <<aiVars, store, dedupVars, geoVars, moreVars>>

\* lines 105-107 after a source, and the step to the next one
AfterSource(succ, errs, details) ==
    /\ successful' = succ
    /\ errors' = errs
    /\ log_details' = details
    /\ log' = _update_log(log, ProgressStatus, total, succ, errs, details)
    /\ writes' = Written(log, ProgressStatus)
    /\ idx' = idx + 1
    /\ pc' = "loop"
    /\ kind' = "none" /\ remaining' = 0 /\ items' = 0 /\ considered' = 0

\* lines 81-90: the next source; _is_rss_feed picks the strategy, the feed or the
\* page delivers n entries (none when the fetch fails), of which the first 20 or
\* 10 are processed.
BeginSource ==
    /\ pc = "loop" /\ idx <= Len(sources)
    /\ \E k \in {"rss", "web"}, n \in 0..MaxFeedLen :
          /\ kind' = k
          /\ remaining' = Min(n, IF k = "rss" THEN RssEntryCap ELSE ArticleCap)
    /\ items' = 0
    /\ considered' = 0
    /\ log_details' = Append(log_details, Line("Processing", sources[idx], 0))
    /\ pc' = "scraping"
    /\ UNCHANGED <<log, writes, sources, idx, total, successful, errors, outcomes>>
    /\ UNCHANGED <<aiVars, store, dedupVars, geoVars, moreVars>>

\* lines 99-103: an exception in the try block of the source (before it is
\* scraped: _scrape_rss and _scrape_website catch their own).
SourceRaises ==
    /\ pc = "loop" /\ idx <= Len(sources)
    /\ \E length \in {ShortError, LongError} :
          AfterSource(successful, errors + 1,
                      log_details \o <<Line("Processing", sources[idx], 0),
                                       Line("Error", sources[idx], error_msg(length))>>)
    /\ outcomes' = Append(outcomes, [source |-> sources[idx], raised |-> TRUE,
                                     considered |-> 0, saved |-> 0])
    /\ UNCHANGED <<sources, total>>
    /\ UNCHANGED <<aiVars, store, dedupVars, geoVars, moreVars>>

\* one entry of the feed (_scrape_rss 160-235) or one article link
\* (_scrape_website 313-385): extract, geocode, commit the row if there is one.
ProcessEntry ==
    /\ pc = "scraping" /\ remaining > 0
    /\ \E out \in EntryOutcomeTable[ai_processor, kind, SourceCategory(sources[idx])] :
          /\ Fetched(store) + Len(out) <= MaxStore
          /\ store' = store (+) BagOfSeq(out)
          /\ items' = items + Len(out)
          /\ commits' = commits + Len(out)
    /\ remaining' = remaining - 1
    /\ considered' = considered + 1
    /\ UNCHANGED <<log, writes, pc, sources, idx, total, successful, errors,
                   log_details, kind, outcomes>>
    /\ UNCHANGED <<aiVars, dedupVars, geoVars, noCommits>>

\* lines 92-97 and 105-107: the source is counted by whether it gave items.
EndSource ==
    /\ pc = "scraping" /\ remaining = 0
    /\ LET c == Counted(items, successful, errors)
       IN  AfterSource(c.successful, c.errors,
                       Append(log_details,
                              IF items > 0 THEN Line("Found", sources[idx], items)
                              ELSE Line("No items found", sources[idx], 0)))
    /\ outcomes' = Append(outcomes, [source |-> sources[idx], raised |-> FALSE,
                                     considered |-> considered, saved |-> items])
    /\ UNCHANGED <<sources, total>>
    /\ UNCHANGED <<aiVars, store, dedupVars, geoVars, moreVars>>


\* lines 109-114: the loop is over; the final status is written and run_scrape
\* returns (its locals are gone).
Finish ==
    /\ pc = "loop" /\ idx > Len(sources)
    /\ log' = _update_log(log, FinalStatus(errors), total, successful, errors, log_details)
    /\ writes' = Written(log, FinalStatus(errors))
    /\ pc' = "done"
    /\ idx' = 1 /\ total' = 0 /\ successful' = 0 /\ errors' = 0 /\ log_details' = <<>>
    /\ UNCHANGED <<sources, kind, remaining, items, considered, outcomes>>
    /\ UNCHANGED <<aiVars, store, dedupVars, geoVars, moreVars>>

(***************************************************************************)
(* The request handlers that write to news_items outside a run.            *)
(***************************************************************************)
\* fetch_from_newsapi (653-747) as a function of the table: outs is, per article
\* the API delivered, the rows its loop body commits.
\* variant: the table is rewritten with the rows of the call
fetch_from_newsapi_rewriting(st, outs) ==
    [store |-> BagOfSeq(Flatten(outs)), ret |-> Flatten(outs),
     commits |-> Len(Flatten(outs))]

fetch_from_newsapi(st, outs) ==
    [store |-> st (+) BagOfSeq(Flatten(outs)), ret |-> Flatten(outs),
     commits |-> Len(Flatten(outs))]

\* The loop of fetch_from_rss_feeds (489-513) over the articles of the RSS
\* service, from article i on, with the rows saved so far.  The constructor call
\* of lines 491-502 raises: the handler of 517-520 rolls back (nothing is
\* pending) and returns [].  commit_fails is the article at which db.commit()
\* raises (0: at none); the handler rolls the pending row back and returns [].
RECURSIVE SaveArticles(_, _, _, _, _)
SaveArticles(st, arts, i, saved_items, commit_fails) ==
    IF i > Len(arts)
    THEN [store |-> st, ret |-> saved_items, commits |-> Len(saved_items),
          raised |-> FALSE]
    ELSE IF NewsItemRaises(RssFeedKwargs)
    THEN [store |-> st, ret |-> <<>>, commits |-> Len(saved_items), raised |-> TRUE]
    ELSE LET a == arts[i]
             news_item == NewsItem(a.title, a.category, <<a.latitude, a.longitude>>,
                                   a.source_url, "feed")
             existing_item == \E r \in BagToSet(st) :
                                  r.title = news_item.title /\ r.source_url = news_item.source_url
         IN  IF existing_item THEN SaveArticles(st, arts, i + 1, saved_items, commit_fails)
             ELSE IF commit_fails = i
             THEN [store |-> st, ret |-> <<>>, commits |-> Len(saved_items),
                   raised |-> TRUE]
             ELSE SaveArticles(st (+) SetToBag({news_item}), arts, i + 1,
                               Append(saved_items, news_item), commit_fails)

fetch_from_rss_feeds(st, arts, commit_fails) == SaveArticles(st, arts, 1, <<>>, commit_fails)

\* the rows fetch_huntington_news creates when it found fewer than 5 (576-628)
fallback_items ==
    <<NewsItem("Huntington Town Board Meeting", "News", <<"40.8676", "-73.4257">>,
               "https://huntingtonny.gov", "fixed"),
      NewsItem("New Restaurant Opening in Huntington Village", "Business",
               <<"40.8707", "-73.4295">>, "https://huntingtonny.gov/business", "fixed"),
      NewsItem("Community Cleanup Event at Huntington Harbor", "Causes",
               <<"40.8954", "-73.4262">>, "https://huntingtonny.gov/events", "fixed"),
      NewsItem("Summer Concert Series Announced for Heckscher Park", "Events",
               <<"40.8734", "-73.4287">>, "https://huntingtonny.gov/culture", "fixed"),
      NewsItem("Traffic Safety Improvements on Route 25A", "Crime & Safety",
               <<"40.8715", "-73.4305">>, "https://huntingtonny.gov/safety", "fixed")>>

\* len(existing_items) >= 8: the table is returned as it is
EnoughExisting == 8

\* len(all_items) < 5: the fallback rows are added
FewItems == 5

\* fetch_huntington_news (522-651) as a function of the table, the articles of
\* the RSS service and the rows of the API articles.
fetch_huntington_news(st, arts, outs, commit_fails) ==
    IF BagCardinality(st) >= EnoughExisting THEN [store |-> st, commits |-> 0]
    ELSE LET rss == fetch_from_rss_feeds(st, arts, commit_fails)
             api == fetch_from_newsapi(rss.store, outs)
             all_items == rss.ret \o api.ret
         IN  IF Len(all_items) < FewItems
             THEN [store |-> api.store (+) BagOfSeq(fallback_items),
                   commits |-> rss.commits + api.commits + 1]
             ELSE [store |-> api.store, commits |-> rss.commits + api.commits]


(***************************************************************************)
(* RSSFeedService (rss_service.py).  A title is the sequence of its        *)
(* whitespace-separated words, a word a sequence of characters: a letter   *)
(* in lower case ("a" .. "y"), the capital "A", or the punctuation mark    *)
(* "!".                                                                    *)
(***************************************************************************)
\* str.lower on one character
Lower(c) == IF c = "A" THEN "a" ELSE IF c = "N" THEN "n" ELSE c

LowerText(text) == [i \in DOMAIN text |-> Lower(text[i])]

\* re.sub(r'[^\w\s]', '', title.lower()), then split(): the words that are left
SimpleWord(word) == SelectSeq(LowerText(word), LAMBDA c : c # "!")

simple_title(title) ==
    SelectSeq([i \in DOMAIN title |-> SimpleWord(title[i])], LAMBDA w : w # <<>>)

Words(title) == {title[i] : i \in DOMAIN title}

\* intersection / union > 0.6, on the word sets of two simplified titles
_titles_are_similar(title1, title2) ==
    LET words1 == Words(title1)
        words2 == Words(title2)
        intersection == Cardinality(words1 \cap words2)
        union == Cardinality(words1 \cup words2)
    IN  IF words1 = {} \/ words2 = {} THEN FALSE
        ELSE 10 * intersection > 6 * union

\* variant: only the title of the article kept last is remembered
RECURSIVE RemoveLoop_latest(_, _, _)
RemoveLoop_latest(arts, uniq, seen_titles) ==
    IF arts = <<>> THEN uniq
    ELSE LET st == simple_title(Head(arts).title)
             is_duplicate == \E seen \in seen_titles : _titles_are_similar(st, seen)
         IN  IF is_duplicate THEN RemoveLoop_latest(Tail(arts), uniq, seen_titles)
             ELSE RemoveLoop_latest(Tail(arts), Append(uniq, Head(arts)), {st})

\* the loop of _remove_duplicates over the articles left, with unique_articles
\* and seen_titles as they stand
RECURSIVE RemoveLoop(_, _, _)
RemoveLoop(arts, uniq, seen_titles) ==
    IF arts = <<>> THEN uniq
    ELSE LET st == simple_title(Head(arts).title)
             is_duplicate == \E seen \in seen_titles : _titles_are_similar(st, seen)
         IN  IF is_duplicate THEN RemoveLoop(Tail(arts), uniq, seen_titles)
             ELSE RemoveLoop(Tail(arts), Append(uniq, Head(arts)), seen_titles \cup {st})

_remove_duplicates(arts) == RemoveLoop(arts, <<>>, {})

\* ---- titles and batches (model inputs) ----
MaxBatch == 3

W(c) == <<c>>

DedupTitles ==
    {<<W("a"), W("b"), W("c"), W("d")>>,
     <<W("a"), W("b"), W("c"), W("e")>>,
     <<W("A"), <<"b", "!">>, W("c"), W("d"), W("!")>>,
     <<W("a"), W("b"), W("c")>>,
     <<W("a"), W("b")>>,
     <<W("x"), W("y")>>,
     <<>>}

DedupArticles == [title : DedupTitles, source_url : {"u1", "u2"}]


(***************************************************************************)
(* Geolocator (geolocation.py).  A location text is a sequence of          *)
(* characters: the letter "a", its capital "A", the blank " ", and "N"     *)
(* for the suffix ", NY" ("n" once lowercased).  The clock counts ticks.   *)
(***************************************************************************)
TicksPerSecond == 2
MaxTime == 4
MaxCandidates == 2

min_request_interval == 1 * TicksPerSecond

NYPoint2 == <<"40.90", "-73.34">>

GeoPoints == Points \cup {NYPoint2}

\* the provider places the point in New York state
InNY(coords) == coords \in {NYPoint, NYPoint2, <<"New York">>}

\* Candidates of an answer whose coordinates cannot be read (a key is missing,
\* a value is no number): one the provider places in New York, one elsewhere.
MalformedNY    == <<"New York">>
MalformedOther == <<"?">>

Malformed(candidate) == Len(candidate) # 2

Candidates == GeoPoints \cup {MalformedNY, MalformedOther}

\* what a call gives whose exception no handler caught
Unhandled == <<"raised">>

huntington_area_locations == {<<"A", "N">>}

\* location.replace(', NY', '')
WithoutNY(location) == SelectSeq(location, LAMBDA c : c # "N")

\* variant: nothing is ever written to the cache
Put_nothing(cache, key, coords) == cache

\* variant: the write starts a fresh dict that holds the new entry alone
Put_fresh(cache, key, coords) == [k \in {key} |-> coords]

Put(cache, key, coords) ==
    [k \in DOMAIN cache \cup {key} |-> IF k = key THEN coords ELSE cache[k]]

EmptyCache == [k \in {} |-> NotFound]

\* the cache _initialize_location_cache leaves when every predefined location
\* resolved to coords
InitializedCache(coords) ==
    LET location == CHOOSE l \in huntington_area_locations : TRUE
    IN  Put(Put(EmptyCache, LowerText(location), coords),
            LowerText(WithoutNY(location)), coords)

\* variant: the limiter never sleeps
_respect_rate_limit_nosleep(last, t) == t

\* time.time() after _respect_rate_limit, called at time t
_respect_rate_limit(last, t) ==
    LET elapsed == t - last
    IN  IF elapsed < min_request_interval THEN t + (min_request_interval - elapsed) ELSE t

\* What a geocoding request can bring back: an exception of requests.get or
\* of response.json() ("exception"), a body that reports an error ("status"),
\* or the candidates of the answer in order ("ok").
ProviderAnswers ==
    {[kind |-> k, results |-> <<>>] : k \in {"exception", "status"}}
      \cup {[kind |-> "ok", results |-> r] : r \in SeqsUpTo(Candidates, MaxCandidates)}

\* what a try block hands on: the value it returned or the exception it raised,
\* and the cache as it stood then
Return(coords, cache) == [result |-> coords, cache |-> cache, raised |-> FALSE]

Raise(cache) == [result |-> Unhandled, cache |-> cache, raised |-> TRUE]

\* variant: the handler lets the exception through
Caught_reraised(body) == body

\* except Exception: log the error, return None
Caught(body) ==
    IF body.raised THEN [result |-> NotFound, cache |-> body.cache, raised |-> TRUE]
    ELSE body

_geocode_with_google(cache, location_text, data) ==
    Caught(IF data.kind = "exception" THEN Raise(cache)
           ELSE IF data.kind = "status" \/ data.results = <<>> THEN Return(NotFound, cache)
           ELSE IF Malformed(data.results[1]) THEN Raise(cache)
           ELSE LET coords == data.results[1]
                    in_ny == InNY(coords)
                IN  Return(coords,
                           IF in_ny THEN Put(cache, LowerText(location_text), coords)
                           ELSE cache))

\* An error body is a dict: iterating it yields its keys, and item.get raises.
_geocode_with_nominatim(cache, location_text, data) ==
    Caught(IF data.kind \in {"exception", "status"} THEN Raise(cache)
           ELSE IF data.results = <<>> THEN Return(NotFound, cache)
           ELSE IF \E i \in DOMAIN data.results : InNY(data.results[i])
                THEN LET first == CHOOSE i \in DOMAIN data.results :
                                      /\ InNY(data.results[i])
                                      /\ \A j \in 1..(i - 1) : ~InNY(data.results[j])
                         coords == data.results[first]
                     IN  IF Malformed(coords) THEN Raise(cache)
                         ELSE Return(coords, Put(cache, LowerText(location_text), coords))
                ELSE IF Malformed(data.results[1]) THEN Raise(cache)
                ELSE Return(data.results[1], cache))

\* The candidate of an answer that the region preference singles out: the
\* first one the provider places in New York, the first one when there is none.
Preferred(results) ==
    IF \E i \in DOMAIN results : InNY(results[i])
    THEN results[CHOOSE i \in DOMAIN results :
                     /\ InNY(results[i])
                     /\ \A j \in 1..(i - 1) : ~InNY(results[j])]
    ELSE results[1]

\* the preferred candidate of the answer a call received, NotFound when the
\* call sent no request or the answer had no candidates
PreferredOf(issued, data) ==
    IF issued = 1 /\ data.kind = "ok" /\ data.results # <<>>
    THEN Preferred(data.results) ELSE NotFound

\* what the request of a call met: "none" without a request
Answer(issued, data) ==
    IF issued = 0 THEN "none"
    ELSE IF data.kind # "ok" THEN data.kind
    ELSE IF data.results = <<>> THEN "empty"
    ELSE "candidates"

\* geocode at time t: the result, the cache and the timestamps it leaves, the
\* requests it issued and the ticks it slept
geocode(key_set, cache, last, t, location_text, data) ==
    IF IsBlank(location_text)
    THEN [result |-> NotFound, cache |-> cache, last |-> last, now |-> t,
          issued |-> 0, hit |-> FALSE, raised |-> FALSE]
    ELSE LET location_key == LowerText(location_text)
         IN  IF location_key \in DOMAIN cache
             THEN [result |-> cache[location_key], cache |-> cache, last |-> last,
                   now |-> t, issued |-> 0, hit |-> TRUE, raised |-> FALSE]
             ELSE LET wake == _respect_rate_limit(last, t)
                      r == IF key_set THEN _geocode_with_google(cache, location_text, data)
                           ELSE _geocode_with_nominatim(cache, location_text, data)
                  IN  [result |-> r.result, cache |-> r.cache, last |-> wake,
                       now |-> wake, issued |-> 1, hit |-> FALSE, raised |-> r.raised]

GeoTexts == {<<>>, <<" ">>, <<"a">>, <<"A">>, <<"a", " ">>, <<"A", "N">>}

NoCall ==
    [seq |-> 0, kind |-> "none", text |-> <<>>, result |-> NotFound,
     issued |-> 0, slept |-> 0, hit |-> FALSE, answer |-> "none", raised |-> FALSE,
     preferred |-> NotFound]

Geocode ==
    \E location_text \in GeoTexts, data \in ProviderAnswers :
        LET r == geocode(google_api_key, location_cache, last_request_time, now,
                         location_text, data)
        IN  /\ r.now <= MaxTime
            /\ location_cache' = r.cache
            /\ last_request_time' = r.last
            /\ now' = r.now
            /\ lastCall' = [seq |-> 1 - lastCall.seq, kind |-> "geocode",
                            text |-> location_text, result |-> r.result,
                            issued |-> r.issued, slept |-> r.now - now, hit |-> r.hit,
                            answer |-> Answer(r.issued, data), raised |-> r.raised,
                            preferred |-> PreferredOf(r.issued, data)]
            /\ sent_at' = IF r.issued = 1 THEN r.now ELSE sent_at
            /\ UNCHANGED <<google_api_key, pipeVars, dedupVars, moreVars>>

\* reverse_geocode: the rate limit, then one request whose answer changes nothing
ReverseGeocode ==
    \E data \in {d \in ProviderAnswers : Len(d.results) <= 1} :
    LET wake == _respect_rate_limit(last_request_time, now)
    IN  /\ wake <= MaxTime
        /\ last_request_time' = wake
        /\ now' = wake
        /\ lastCall' = [seq |-> 1 - lastCall.seq, kind |-> "reverse_geocode",
                        text |-> <<>>, result |-> NotFound,
                        issued |-> 1, slept |-> wake - now, hit |-> FALSE,
                        answer |-> Answer(1, data),
                        raised |-> data.kind = "exception",
                        preferred |-> NotFound]
        /\ sent_at' = wake
        /\ UNCHANGED <<google_api_key, location_cache, pipeVars, dedupVars, moreVars>>

\* time passes between calls
Tick ==
    /\ now < MaxTime
    /\ now' = now + 1
    /\ UNCHANGED <<google_api_key, location_cache, last_request_time, lastCall,
                   sent_at, pipeVars, dedupVars, moreVars>>


(***************************************************************************)
(* The specifications of the pipeline, the de-duplication and the          *)
(* geolocator.                                                             *)
(***************************************************************************)
\* articles the RSS service hands to fetch_from_rss_feeds
RssArticles ==
    [title : {<<W("a"), W("b")>>, <<W("a"), W("b"), W("c")>>}, source_url : {"u1"},
     category : {"News"}, latitude : {"40.8676"}, longitude : {"-73.4257"}]

IdleRun ==
    /\ log = <<>> /\ writes = <<>> /\ pc = "idle" /\ sources = <<>> /\ idx = 1
    /\ total = 0 /\ successful = 0 /\ errors = 0 /\ log_details = <<>>
    /\ kind = "none" /\ remaining = 0 /\ items = 0 /\ considered = 0 /\ outcomes = <<>>

IdlePipeline == use_openai = FALSE /\ use_anthropic = FALSE /\ store = EmptyBag /\ IdleRun

IdleDedup == articles = <<>> /\ unique_articles = <<>> /\ dedup_pc = "input"

IdleGeo ==
    /\ google_api_key = FALSE /\ location_cache = EmptyCache
    /\ last_request_time = 0 /\ now = 0 /\ lastCall = NoCall /\ sent_at = 0

IdleWeb ==
    /\ web_pc = "idle" /\ context = "none" /\ contexts = 0 /\ article_links = 0
    /\ web_items = 0 /\ web_exit = "none"

NoneSeen == [excluded |-> 0, unlocated |-> 0, raised |-> 0, saved |-> 0]

IdleRss ==
    /\ rss_pc = "idle" /\ entries = 0 /\ rss_left = 0 /\ rss_items = 0
    /\ rss_seen = NoneSeen

NoExtraction ==
    [seq |-> 0, text |-> <<>>, called |-> "none", failed |-> FALSE,
     result |-> _create_empty_result]

IdleExtract == extraction = NoExtraction

IdleAgg ==
    /\ agg_pc = "idle" /\ pending = <<>> /\ agg_items = 0
    /\ collected = {} /\ deduped = {}

NoParse == [seq |-> 0, lines |-> <<>>, result |-> _create_empty_result]

\* main.py line 50 and worker.py line 79 each construct a Geolocator
Instances == {"main", "worker"}

NoOp == [seq |-> 0, self |-> "main", kind |-> "none", issued |-> 0, slept |-> 0]

IdleTwo ==
    /\ geolocators = [g \in Instances |->
                         [location_cache |-> EmptyCache, last_request_time |-> 0]]
    /\ lastOp = NoOp

\* search_location and search_location_post are plain functions: the
\* framework runs each request in a thread of its pool
Threads == {"t1", "t2"}

IdleCaller == [pc |-> "idle", current_time |-> 0, wake |-> 0]

IdleRace == callers = [t \in Threads |-> IdleCaller] /\ requests = <<>>

NoRssCall ==
    [seq |-> 0, articles |-> <<>>, commit_fails |-> 0, returned |-> <<>>,
     raised |-> FALSE]

IdleLate ==
    parse = NoParse /\ IdleTwo /\ commits = 0 /\ IdleRace /\ rss_call = NoRssCall

IdleMore == IdleWeb /\ IdleRss /\ IdleExtract /\ IdleAgg /\ IdleLate

\* ---- the pipeline ----
FetchFromNewsapi ==
    /\ pc \in {"idle", "done", "crashed"}
    /\ \E location \in RequestedLocations :
       \E outs \in ApiOutcomeTable[ai_processor, location] :
          /\ Fetched(store) + Len(Flatten(outs)) <= MaxStore
          /\ store' = fetch_from_newsapi(store, outs).store
          /\ commits' = commits + fetch_from_newsapi(store, outs).commits
    /\ UNCHANGED <<aiVars, runVars, dedupVars, geoVars, noCommits>>

\* location "huntington" goes through _remove_duplicates, any other does not
FetchFromRssFeeds ==
    /\ pc \in {"idle", "done", "crashed"}
    /\ \E arts \in SeqsUpTo(RssArticles, MaxArticles), huntington \in BOOLEAN :
       \E commit_fails \in 0..Len(arts) :
          LET rss == fetch_from_rss_feeds(
                         store, IF huntington THEN _remove_duplicates(arts) ELSE arts,
                         commit_fails)
          IN  /\ store' = rss.store
              /\ commits' = commits + rss.commits
    /\ UNCHANGED <<aiVars, runVars, dedupVars, geoVars, noCommits>>

FetchHuntingtonNews ==
    /\ pc \in {"idle", "done", "crashed"}
    /\ \E arts \in SeqsUpTo(RssArticles, MaxArticles), location \in RequestedLocations :
       \E outs \in ApiOutcomeTable[ai_processor, location], commit_fails \in 0..Len(arts) :
          LET all == fetch_huntington_news(store, _remove_duplicates(arts), outs,
                                           commit_fails)
          IN  /\ Fetched(store) + Len(Flatten(outs)) <= MaxStore
              /\ store' = all.store
              /\ commits' = commits + all.commits
    /\ UNCHANGED <<aiVars, runVars, dedupVars, geoVars, noCommits>>

Init ==
    /\ use_openai \in BOOLEAN
    /\ use_anthropic \in BOOLEAN
    /\ ~(use_openai /\ use_anthropic)     \* as with use_openai alone (line 48)
    /\ store = EmptyBag
    /\ IdleRun
    /\ IdleDedup
    /\ IdleGeo
    /\ IdleMore

Next ==
    \/ trigger_scrape
    \/ RunStart
    \/ LaunchBrowser
    \/ LaunchFails
    \/ BeginSource
    \/ SourceRaises
    \/ ProcessEntry
    \/ EndSource
    \/ Finish
    \/ FetchFromNewsapi
    \/ FetchFromRssFeeds
    \/ FetchHuntingtonNews

Spec == Init /\ [][Next]_vars

\* A step of run_scrape.  The background task (main.py 276) or the worker
\* (worker.py 85) runs the coroutine to its end: whenever the run can take a
\* step, it takes one (each per-source operation returns or raises).
RunStep ==
    \/ RunStart
    \/ LaunchBrowser
    \/ LaunchFails
    \/ BeginSource
    \/ SourceRaises
    \/ ProcessEntry
    \/ EndSource
    \/ Finish

SpecLive == Init /\ [][Next]_vars /\ WF_vars(RunStep)

\* ---- the title de-duplication ----
RemoveDuplicates ==
    /\ dedup_pc = "input"
    /\ unique_articles' = _remove_duplicates(articles)
    /\ dedup_pc' = "done"
    /\ UNCHANGED <<articles, pipeVars, geoVars, moreVars>>

InitDedup ==
    /\ articles \in SeqsUpTo(DedupArticles, MaxBatch)
    /\ unique_articles = <<>>
    /\ dedup_pc = "input"
    /\ IdlePipeline
    /\ IdleGeo
    /\ IdleMore

NextDedup == RemoveDuplicates

SpecDedup == InitDedup /\ [][NextDedup]_vars

\* ---- one Geolocator ----
InitGeo ==
    /\ google_api_key \in BOOLEAN
    /\ location_cache \in {EmptyCache} \cup {InitializedCache(c) : c \in GeoPoints}
    /\ last_request_time = 0
    /\ now = 0
    /\ lastCall = NoCall
    /\ sent_at = 0          \* the last request of _initialize_location_cache
    /\ IdlePipeline
    /\ IdleDedup
    /\ IdleMore

NextGeo ==
    \/ Geocode
    \/ ReverseGeocode
    \/ Tick

SpecGeo == InitGeo /\ [][NextGeo]_vars

(***************************************************************************)
(* NewsScraper._scrape_website (news_scraper.py 243-392), statement by     *)
(* statement, on one browser: the context it creates, the article links it *)
(* visits and the ways it returns.  Every await of the outer try block can *)
(* raise; the handler of lines 390-392 logs and returns items.             *)
(***************************************************************************)
MaxLinks == 11       \* article links a page delivers
MaxContexts == 3     \* contexts a browser holds open

\* what _scrape_website does not touch
notWeb == <<aiVars, runVars, dedupVars, geoVars, rssVars, extraction, aggVars, lateVars>>

\* lines 390-392: except Exception: log, return items
WebHandler(how) ==
    /\ web_pc' = "returned"
    /\ web_exit' = how
    /\ UNCHANGED <<article_links, web_items, store>>

\* the call: items = [] (line 255)
ScrapeWebsite ==
    /\ web_pc \in {"idle", "returned"}
    /\ contexts < MaxContexts
    /\ web_pc' = "try"
    /\ context' = "none"
    /\ article_links' = 0
    /\ web_items' = 0
    /\ web_exit' = "none"
    /\ UNCHANGED <<contexts, store>>
    /\ UNCHANGED notWeb

\* lines 259-262: browser.new_context(...)
NewContext ==
    /\ web_pc = "try"
    /\ \/ /\ context' = "open"
          /\ contexts' = contexts + 1
          /\ web_pc' = "page"
          /\ UNCHANGED <<article_links, web_items, web_exit, store>>
       \/ /\ WebHandler("exception")
          /\ UNCHANGED <<context, contexts>>
    /\ UNCHANGED notWeb

\* line 263: context.new_page()
NewPage ==
    /\ web_pc = "page"
    /\ \/ /\ web_pc' = "goto"
          /\ UNCHANGED <<article_links, web_items, web_exit, store>>
       \/ WebHandler("exception")
    /\ UNCHANGED <<context, contexts>>
    /\ UNCHANGED notWeb

\* lines 266-269: page.goto(source.url, timeout=30000) and the wait
GotoSource ==
    /\ web_pc = "goto"
    /\ \/ /\ web_pc' = "select"
          /\ UNCHANGED <<article_links, web_items, web_exit, store>>
       \/ WebHandler("timeout")
    /\ UNCHANGED <<context, contexts>>
    /\ UNCHANGED notWeb

\* lines 272-310: the links of the page, cut to the first 10
SelectLinks ==
    /\ web_pc = "select"
    /\ \/ \E n \in 0..MaxLinks :
             /\ article_links' = Min(n, ArticleCap)
             /\ web_pc' = "articles"
             /\ UNCHANGED <<web_items, web_exit, store>>
       \/ WebHandler("exception")
    /\ UNCHANGED <<context, contexts>>
    /\ UNCHANGED notWeb

\* lines 313-385: one article link; its exceptions are caught inside the loop
VisitArticle ==
    /\ web_pc = "articles" /\ article_links > 0
    /\ \E out \in EntryOutcomeTable[ai_processor, "web", CHOOSE c \in SourceCategories : TRUE] :
          /\ Fetched(store) + Len(out) <= MaxStore
          /\ store' = store (+) BagOfSeq(out)
          /\ web_items' = web_items + Len(out)
    /\ article_links' = article_links - 1
    /\ UNCHANGED <<web_pc, context, contexts, web_exit>>
    /\ UNCHANGED notWeb

\* lines 387-388: context.close() and return items; a close that raises may or
\* may not have closed the context
CloseContext ==
    /\ web_pc = "articles" /\ article_links = 0
    /\ \/ /\ context' = "closed"
          /\ contexts' = contexts - 1
          /\ web_pc' = "returned"
          /\ web_exit' = "success"
          /\ UNCHANGED <<article_links, web_items, store>>
       \/ /\ WebHandler("exception")
          /\ \/ context' = "closed" /\ contexts' = contexts - 1
             \/ UNCHANGED <<context, contexts>>
    /\ UNCHANGED notWeb

InitWeb ==
    /\ use_openai \in BOOLEAN
    /\ use_anthropic \in BOOLEAN
    /\ ~(use_openai /\ use_anthropic)
    /\ store = EmptyBag
    /\ IdleRun
    /\ IdleDedup
    /\ IdleGeo
    /\ IdleWeb
    /\ IdleRss
    /\ IdleExtract
    /\ IdleAgg
    /\ IdleLate

NextWeb ==
    \/ ScrapeWebsite
    \/ NewContext
    \/ NewPage
    \/ GotoSource
    \/ SelectLinks
    \/ VisitArticle
    \/ CloseContext

SpecWeb == InitWeb /\ [][NextWeb]_vars

(***************************************************************************)
(* NewsScraper._scrape_rss (news_scraper.py 116-241) on one feed, entry by *)
(* entry, with a count of what became of the entries.                      *)
(***************************************************************************)
MaxEntries == 25     \* entries of the longest feed

\* len(feed.entries) of the feeds looked at; 0 is also the feed that could
\* not be fetched or parsed (lines 138-157 return items)
FeedLengths == {0, 1, RssEntryCap, MaxEntries}

\* What the loop body (lines 161-235) does with an entry, given the extraction
\* result and what geocode returns: "excluded" (line 189), "unlocated" (line
\* 201: no location extracted, or none resolved), "raised" (line 234: an
\* exception in the body), "saved" (lines 229-232).
EntryClass(result, g) ==
    IF "notdict" \in DOMAIN result THEN "raised"
    ELSE IF IsExcluded(result) THEN "excluded"
    ELSE LET coords == IF Get(result, "location", <<>>) # <<>> THEN g ELSE NotFound
         IN  IF NoCoordinates(coords) THEN "unlocated"
             ELSE IF NewsItemRaises(ScrapeKwargs) THEN "raised"
             ELSE "saved"

\* the entries of the feed: one article, the provider files it under News
RssEntry == [title |-> "T1", link |-> "u1"]

RssOutcomes(self) ==
    UNION {{[rows |-> ScrapeEntry("News", RssEntry, r, g), class |-> EntryClass(r, g)] :
               g \in GeocodeReturns(Get(r, "location", <<>>))} :
           r \in {x \in ExtractionResults(self, <<"T1">>, RssEntry.link) :
                      Get(x, "category", "News") = "News"}}

RssOutcomeTable == [self \in AIProcessors |-> RssOutcomes(self)]

\* variant: every entry of the feed is processed
FirstEntries_all(n) == n

\* len(feed.entries[:20])
FirstEntries(n) == Min(n, RssEntryCap)

\* what _scrape_rss does not touch
notRss == <<aiVars, runVars, dedupVars, geoVars, webVars, extraction, aggVars, lateVars>>

\* lines 128-160: the feed is fetched and cut to its first 20 entries
ScrapeRss ==
    /\ rss_pc = "idle"
    /\ \E n \in FeedLengths :
          /\ entries' = n
          /\ rss_left' = FirstEntries(n)
          /\ rss_pc' = IF n = 0 THEN "returned" ELSE "loop"
    /\ rss_items' = 0
    /\ rss_seen' = NoneSeen
    /\ UNCHANGED store
    /\ UNCHANGED notRss

\* lines 161-235: one entry
ScrapeRssEntry ==
    /\ rss_pc = "loop" /\ rss_left > 0
    /\ \E o \in RssOutcomeTable[ai_processor] :
          /\ store' = store (+) BagOfSeq(o.rows)
          /\ rss_items' = rss_items + Len(o.rows)
          /\ rss_seen' = [rss_seen EXCEPT ![o.class] = @ + 1]
    /\ rss_left' = rss_left - 1
    /\ UNCHANGED <<rss_pc, entries>>
    /\ UNCHANGED notRss

\* line 237: return items
ReturnItems ==
    /\ rss_pc = "loop" /\ rss_left = 0
    /\ rss_pc' = "returned"
    /\ UNCHANGED <<entries, rss_left, rss_items, rss_seen, store>>
    /\ UNCHANGED notRss

InitRss ==
    /\ use_openai \in BOOLEAN
    /\ use_anthropic \in BOOLEAN
    /\ ~(use_openai /\ use_anthropic)
    /\ store = EmptyBag
    /\ IdleRun
    /\ IdleDedup
    /\ IdleGeo
    /\ IdleWeb
    /\ IdleRss
    /\ IdleExtract
    /\ IdleAgg
    /\ IdleLate

NextRss ==
    \/ ScrapeRss
    \/ ScrapeRssEntry
    \/ ReturnItems

SpecRss == InitRss /\ [][NextRss]_vars

(***************************************************************************)
(* One AIProcessor (ai_processor.py): any configuration of the two         *)
(* credentials, and calls of extract_information one after the other.      *)
(***************************************************************************)
AITexts ==
    {<<>>, <<" ">>, <<"T1">>, <<"", "T1">>, <<"L300">>, <<"", "L300">>, <<"L600">>}

SourceUrls == {"u1"}

\* extract_information(text, source_url); resp is what the provider does if it
\* is called
Extract ==
    /\ \E text \in AITexts, source_url \in SourceUrls, resp \in ProviderResponses :
          LET branch == Branch(ai_processor, text)
              called == IF branch \in {"openai", "anthropic"} THEN branch ELSE "none"
          IN  extraction' =
                  [seq |-> 1 - extraction.seq, text |-> text, called |-> called,
                   failed |-> called # "none" /\ resp.kind = "error",
                   result |-> extract_information(ai_processor, text, source_url, resp)]
    /\ UNCHANGED <<pipeVars, dedupVars, geoVars, webVars, rssVars, aggVars, lateVars>>

InitAI ==
    /\ use_openai \in BOOLEAN
    /\ use_anthropic \in BOOLEAN
    /\ store = EmptyBag
    /\ IdleRun
    /\ IdleDedup
    /\ IdleGeo
    /\ IdleWeb
    /\ IdleRss
    /\ IdleExtract
    /\ IdleAgg
    /\ IdleLate

NextAI == Extract

SpecAI == InitAI /\ [][NextAI]_vars

(***************************************************************************)
(* NewsScraper.fetch_huntington_news (news_scraper.py 522-651), call by    *)
(* call: the RSS service collects and de-duplicates its feeds              *)
(* (rss_service.py 109-134), fetch_from_rss_feeds saves them, then         *)
(* fetch_from_newsapi collects the articles of the search API and saves    *)
(* them, then the fallback rows.                                           *)
(***************************************************************************)
AggSources == {"rss", "newsapi"}

\* what fetch_huntington_news does not touch
notAgg == <<aiVars, runVars, dedup_pc, geoVars, webVars, rssVars, extraction, lateVars>>

\* lines 535-543: the call; with 8 rows or more the table is returned as it is
AggCall ==
    /\ agg_pc \in {"idle", "returned"}
    /\ agg_pc' = IF BagCardinality(store) >= EnoughExisting THEN "returned" ELSE "rss"
    /\ pending' = <<>>
    /\ agg_items' = 0
    /\ collected' = {}
    /\ deduped' = {}
    /\ articles' = <<>>
    /\ unique_articles' = <<>>
    /\ UNCHANGED store
    /\ UNCHANGED notAgg

\* rss_service.py 117-128: the three feeds are fetched into all_articles
CollectRss ==
    /\ agg_pc = "rss"
    /\ articles' \in SeqsUpTo(RssArticles, MaxArticles)
    /\ collected' = collected \cup {"rss"}
    /\ agg_pc' = "dedup"
    /\ UNCHANGED <<pending, agg_items, deduped, unique_articles, store>>
    /\ UNCHANGED notAgg

\* rss_service.py 131: _remove_duplicates over the articles of the feeds
DedupRss ==
    /\ agg_pc = "dedup"
    /\ unique_articles' = _remove_duplicates(articles)
    /\ deduped' = collected
    /\ agg_pc' = "save_rss"
    /\ UNCHANGED <<pending, agg_items, collected, articles, store>>
    /\ UNCHANGED notAgg

\* news_scraper.py 487-520 and 549-550: the loop that saves the RSS articles
SaveRss ==
    /\ agg_pc = "save_rss"
    /\ \E commit_fails \in 0..Len(unique_articles) :
          LET rss == fetch_from_rss_feeds(store, unique_articles, commit_fails)
          IN  /\ store' = rss.store
              /\ agg_items' = agg_items + Len(rss.ret)
    /\ agg_pc' = "newsapi"
    /\ UNCHANGED <<pending, collected, deduped, articles, unique_articles>>
    /\ UNCHANGED notAgg

\* news_scraper.py 667-676: the articles of the search API
CollectApi ==
    /\ agg_pc = "newsapi"
    /\ \E location \in RequestedLocations :
       \E outs \in ApiOutcomeTable[ai_processor, location] :
          /\ Fetched(store) + Len(Flatten(outs)) <= MaxStore
          /\ pending' = outs
    /\ collected' = collected \cup {"newsapi"}
    /\ agg_pc' = "save_api"
    /\ UNCHANGED <<agg_items, deduped, articles, unique_articles, store>>
    /\ UNCHANGED notAgg

\* news_scraper.py 681-743 and 557-558: the loop that saves the API articles
SaveApi ==
    /\ agg_pc = "save_api"
    /\ LET api == fetch_from_newsapi(store, pending)
       IN  /\ store' = api.store
           /\ agg_items' = agg_items + Len(api.ret)
    /\ pending' = <<>>
    /\ agg_pc' = "fallback"
    /\ UNCHANGED <<collected, deduped, articles, unique_articles>>
    /\ UNCHANGED notAgg

\* lines 564-642: the fallback rows when fewer than 5 items were fetched
AggReturn ==
    /\ agg_pc = "fallback"
    /\ store' = IF agg_items < FewItems THEN store (+) BagOfSeq(fallback_items) ELSE store
    /\ agg_pc' = "returned"
    /\ UNCHANGED <<pending, agg_items, collected, deduped, articles, unique_articles>>
    /\ UNCHANGED notAgg

InitAgg ==
    /\ use_openai \in BOOLEAN
    /\ use_anthropic \in BOOLEAN
    /\ ~(use_openai /\ use_anthropic)
    /\ store = EmptyBag
    /\ IdleRun
    /\ IdleDedup
    /\ IdleGeo
    /\ IdleMore

NextAgg ==
    \/ AggCall
    \/ CollectRss
    \/ DedupRss
    \/ SaveRss
    \/ CollectApi
    \/ SaveApi
    \/ AggReturn

SpecAgg == InitAgg /\ [][NextAgg]_vars


(***************************************************************************)
(* Properties of run_scrape and its ScrapeLog row (under Spec).            *)
(***************************************************************************)
Count(sq, P(_)) == Cardinality({i \in DOMAIN sq : P(sq[i])})

IsErrorLine(l) == l.kind = "Error"

Raised(o) == o.raised

GaveNothing(o) == ~o.raised /\ o.saved = 0

GaveItems(o) == ~o.raised /\ o.saved > 0

Finished == pc = "done" /\ log # <<>>

\* the step in which the handler of lines 99-103 runs
HandlerStep == Len(outcomes') = Len(outcomes) + 1 /\ outcomes'[Len(outcomes')].raised

\* C1: a source that raises adds exactly one to errors and leaves successful as
\* it is, appends one error line whose message has at most 200 characters, and
\* the loop goes on with the next source; when the run has finished, every
\* active source has been processed exactly once, in order, whichever failed.
C1_FailureIsolated ==
    /\ [][HandlerStep =>
            /\ errors' = errors + 1
            /\ successful' = successful
            /\ Count(log_details', IsErrorLine) = Count(log_details, IsErrorLine) + 1
            /\ IsErrorLine(log_details'[Len(log_details')])
            /\ log_details'[Len(log_details')].n <= 200
            /\ log_details'[Len(log_details')].n \in {ShortError, 200}
            /\ pc' = "loop" /\ idx' = idx + 1]_vars
    /\ [](Finished => [i \in DOMAIN outcomes |-> outcomes[i].source] = sources)

\* a finished run whose first source raised with a long message, and whose
\* second source was processed and gave an item
C1_Witness ==
    /\ Finished /\ Len(outcomes) = 2
    /\ outcomes[1].raised /\ GaveItems(outcomes[2])
    /\ \E i \in DOMAIN log[1].log_details :
          IsErrorLine(log[1].log_details[i]) /\ log[1].log_details[i].n = 200

\* C2: when run_scrape has finished, the status of the row is completed if and
\* only if the error count it wrote is zero, and completed_with_errors otherwise.
C2_FinalStatus ==
    Finished =>
        /\ log[1].status \in TerminalStatuses
        /\ log[1].status = "completed" <=> log[1].error_items = 0
        /\ log[1].status = "completed_with_errors" <=> log[1].error_items > 0

C2_Witness ==
    /\ Finished /\ log[1].status = "completed_with_errors"
    /\ log[1].error_items = 1 /\ log[1].successful_items = 1

\* C3 as stated: a terminal status is always written right after in_progress.
C3_NeverSkipsInProgress ==
    \A i \in DOMAIN writes :
        writes[i] \in TerminalStatuses => i > 1 /\ writes[i - 1] = "in_progress"

\* C3: the statuses written to the row of a run start with started, which is
\* never written again; with at least one active source in_progress is written
\* before any source is processed; a terminal status is the last write, and it
\* follows started directly only in a run with no active source, where it is
\* completed.
C3_StatusOrder ==
    /\ writes # <<>> => writes[1] = "started"
    /\ \A i \in DOMAIN writes :
          /\ i > 1 => writes[i] \in {"in_progress"} \cup TerminalStatuses
          /\ writes[i] \in TerminalStatuses => i = Len(writes) /\ i > 1
          /\ (writes[i] \in TerminalStatuses /\ writes[i - 1] = "started")
                => sources = <<>> /\ writes[i] = "completed"
          /\ (writes[i] \in TerminalStatuses /\ sources # <<>>)
                => \A j \in 2..(i - 1) : writes[j] = "in_progress"
    /\ (pc \in {"browser", "loop", "scraping"} \/ outcomes # <<>>)
          => Len(writes) >= 2 /\ writes[2] = "in_progress"
    /\ (pc = "done" /\ writes # <<>>) => writes[Len(writes)] \in TerminalStatuses
    /\ log # <<>> => log[1].status = writes[Len(writes)]

\* a finished run over two sources: in_progress before and after each source
C3_Witness ==
    /\ Finished /\ Len(sources) = 2
    /\ Len(writes) = 5 /\ writes[2] = "in_progress" /\ writes[5] \in TerminalStatuses

Rows == BagToSet(store)

\* the rows a step adds to the table
AddedRows == {r \in BagToSet(store') : CopiesIn(r, store') > CopiesIn(r, store)}

\* C4 as stated: no row is persisted for a candidate whose extracted location
\* is empty or does not resolve.
C4_OnlyExtractedLocations == \A r \in Rows : r.located_by # "requested"

\* C4: every row of the table has a latitude and a longitude; the rows a run
\* of run_scrape adds (feed entries, page articles) got them from the location
\* of the extraction result, so a candidate whose extracted location is empty
\* or does not resolve is not persisted there.  (fetch_from_newsapi persists
\* such a candidate with the coordinates of the location the caller asked for.)
C4_Coordinates ==
    /\ [](\A r \in Rows : r.latitude # None /\ r.longitude # None)
    /\ [][pc = "scraping" => \A r \in AddedRows : r.located_by = "extracted"]_vars

\* a row of an API article that was located by the requested location
C4_Witness ==
    \E r \in Rows : r.located_by = "requested" /\ r.latitude # None /\ r.longitude # None

\* C5: the table never holds two rows with the same source URL.
C5_UniqueSourceUrl ==
    \A r1, r2 \in Rows :
        /\ CopiesIn(r1, store) = 1
        /\ r1 # r2 => r1.source_url # r2.source_url

\* C7: every row of the table has a category of the enum.
C7_CategoryInEnum == \A r \in Rows : r.category \in valid_categories

(***************************************************************************)
(* Properties of the title de-duplication (under SpecDedup).               *)
(***************************************************************************)
TitleWords(article) == Words(simple_title(article.title))

\* C6: of two articles whose title word sets have a Jaccard index of at least
\* 0.6 one is kept, of two with a lower index both are kept.
C6_Threshold ==
    (dedup_pc = "done" /\ Len(articles) = 2) =>
        LET words1 == TitleWords(articles[1])
            words2 == TitleWords(articles[2])
            shared == Cardinality(words1 \cap words2)
            all    == Cardinality(words1 \cup words2)
        IN  all > 0 =>
                IF 10 * shared >= 6 * all THEN Len(unique_articles) = 1
                ELSE Len(unique_articles) = 2

(***************************************************************************)
(* Properties of Geolocator.geocode (under SpecGeo).                       *)
(***************************************************************************)
GeocodeStep == lastCall'.seq # lastCall.seq /\ lastCall'.kind = "geocode"

\* str.strip on a location text
RECURSIVE LStrip(_)
LStrip(text) == IF text # <<>> /\ Head(text) = " " THEN LStrip(Tail(text)) ELSE text

RECURSIVE RStrip(_)
RStrip(text) ==
    IF text # <<>> /\ text[Len(text)] = " " THEN RStrip(SubSeq(text, 1, Len(text) - 1))
    ELSE text

Normalized(text) == LStrip(RStrip(LowerText(text)))

C10_BlankFailsFast ==
    [][(GeocodeStep /\ \A i \in DOMAIN lastCall'.text : lastCall'.text[i] = " ")
       => /\ lastCall'.result = NotFound
          /\ lastCall'.issued = 0 /\ lastCall'.slept = 0 /\ ~lastCall'.hit
          /\ location_cache' = location_cache
          /\ last_request_time' = last_request_time
          /\ now' = now]_vars

\* a whitespace-only text was refused at a time when a request would have slept
C10_Witness ==
    /\ lastCall.kind = "geocode" /\ lastCall.text = <<" ">>
    /\ lastCall.result = NotFound /\ lastCall.issued = 0
    /\ now - last_request_time < min_request_interval

\* C11: geocode never raises: whatever the request of a call met (an
\* exception, an error status, an empty result list, a candidate that cannot
\* be read), the call returns a value, that value is not-found whenever the
\* request failed, and a call that returns not-found leaves the cache as it was.
C11_FailedLookup ==
    /\ [](lastCall.result \in {NotFound} \cup GeoPoints)
    /\ []((lastCall.kind = "geocode"
            /\ (lastCall.raised \/ lastCall.answer \in {"exception", "status", "empty"}))
           => lastCall.result = NotFound)
    /\ [][(GeocodeStep /\ lastCall'.result = NotFound)
           => location_cache' = location_cache]_vars

\* a request whose answer held a candidate, the read of which raised
C11_Witness ==
    /\ lastCall.kind = "geocode" /\ lastCall.issued = 1
    /\ lastCall.answer = "candidates" /\ lastCall.raised
    /\ lastCall.result = NotFound

\* a step that sends a provider request: geocode of a text that is not blank
\* and whose key is not cached, or reverse_geocode
RequestStep ==
    /\ lastCall'.seq # lastCall.seq
    /\ \/ lastCall'.kind = "reverse_geocode"
       \/ /\ lastCall'.kind = "geocode"
          /\ ~IsBlank(lastCall'.text)
          /\ LowerText(lastCall'.text) \notin DOMAIN location_cache

\* C12: every provider request of the instance, forward or reverse, is sent
\* no earlier than min_request_interval after the previous one; a call that
\* arrives earlier sleeps for the rest of the interval and then sends its
\* request, and a call that arrives later does not sleep.
C12_RateLimit ==
    [][RequestStep
       => /\ lastCall'.issued = 1
          /\ sent_at' = now'
          /\ sent_at' - sent_at >= min_request_interval
          /\ lastCall'.slept =
                 IF now - sent_at < min_request_interval
                 THEN min_request_interval - (now - sent_at) ELSE 0]_vars

\* a call that came too early, slept and sent its request
C12_Witness ==
    /\ lastCall.issued = 1 /\ lastCall.slept > 0 /\ sent_at = now
    /\ sent_at >= min_request_interval

(***************************************************************************)
(* Properties of _scrape_website (under SpecWeb).                          *)
(***************************************************************************)
\* C13: when _scrape_website has returned, by whatever path, the browsing
\* context it created is closed.
C13_ContextClosed == web_pc = "returned" => context # "open"

(***************************************************************************)
(* Properties of _scrape_rss (under SpecRss).                              *)
(***************************************************************************)
Considered == rss_seen.excluded + rss_seen.unlocated + rss_seen.raised + rss_seen.saved

\* C14 as stated: when _scrape_rss has returned, the first min(n, 20) entries
\* were considered and the number of records produced is that number minus
\* the entries the extractor excluded minus the entries without coordinates.
C14_ProducedCount ==
    rss_pc = "returned"
        => /\ Considered = Min(entries, RssEntryCap)
           /\ rss_items = Min(entries, RssEntryCap) - rss_seen.excluded - rss_seen.unlocated

\* C14: when _scrape_rss has returned, the first min(n, 20) entries were
\* considered, and the number of records produced and stored is that number
\* minus the entries the extractor excluded, minus the entries without
\* coordinates, minus the entries whose processing raised an exception.
C14_ProducedCountRaised ==
    /\ Considered + rss_left = Min(entries, RssEntryCap)
    /\ rss_items = rss_seen.saved
    /\ BagCardinality(store) = rss_items
    /\ rss_pc = "returned"
          => /\ Considered = Min(entries, RssEntryCap)
             /\ rss_items = Min(entries, RssEntryCap) - rss_seen.excluded
                                - rss_seen.unlocated - rss_seen.raised

\* the feed of 25 entries with 3 excluded and 2 unresolved
C14_Witness ==
    /\ rss_pc = "returned" /\ entries = MaxEntries
    /\ rss_seen.excluded = 3 /\ rss_seen.unlocated = 2 /\ rss_seen.raised = 0
    /\ rss_items = 15

(***************************************************************************)
(* Properties of extract_information (under SpecAI).                       *)
(***************************************************************************)
\* all text fields blank, category News, confidence 0.0, an error marker
IsEmptyResult(result) ==
    /\ DOMAIN result = {"title", "headline", "description", "summary", "category",
                        "location", "confidence_score", "error"}
    /\ result.title = "" /\ result.headline = ""
    /\ result.description = 0 /\ result.summary = 0
    /\ result.location = <<>>
    /\ result.category = "News"
    /\ result.confidence_score = 0

\* C15: extract_information never raises: a call always returns a result;
\* when the provider call throws, the result is the empty result; an empty
\* text gets the empty result and no provider is called.
C15_NeverRaises ==
    /\ "raised" \notin DOMAIN extraction.result
    /\ extraction.failed => IsEmptyResult(extraction.result)
    /\ extraction.text = <<>>
          => IsEmptyResult(extraction.result) /\ extraction.called = "none"

\* a call on a text whose provider call threw
C15_Witness ==
    /\ extraction.seq = 1 /\ extraction.text # <<>>
    /\ extraction.called # "none" /\ extraction.failed
    /\ IsEmptyResult(extraction.result)

\* C16: the provider is the one chosen at construction (the primary if its
\* credential is present, else the secondary, else none) and stays so; a call
\* on a non-empty text uses that provider and no other; with no provider,
\* every non-empty text gets the basic extraction: the title is the first
\* non-blank line, description and summary are the first 500 and the first 200
\* characters, the category is News, the location is empty and the
\* confidence is 0.3.
C16_ProviderAndBasic ==
    /\ [][use_openai' = use_openai /\ use_anthropic' = use_anthropic]_vars
    /\ [](Selected(ai_processor) =
              IF use_openai THEN "openai" ELSE IF use_anthropic THEN "anthropic" ELSE "none")
    /\ [](extraction.called \in {"none", Selected(ai_processor)})
    /\ []((extraction.seq = 1 /\ extraction.text # <<>>)
            => extraction.called = Selected(ai_processor))
    /\ []((extraction.seq = 1 /\ extraction.text # <<>> /\ Selected(ai_processor) = "none")
            => LET text == extraction.text
                   result == extraction.result
                   nonblank == {i \in DOMAIN text : text[i] \notin {"", " "}}
               IN  /\ \A i \in nonblank :
                          (\A j \in nonblank : i <= j) => result.title = text[i]
                   /\ result.description = Min(TextLen(text), 500)
                   /\ result.summary = Min(TextLen(text), 200)
                   /\ result.category = "News"
                   /\ result.location = <<>>
                   /\ result.confidence_score = 3)

\* no provider, a text that starts with an empty line and is longer than 200
\* characters
C16_Witness ==
    /\ ~use_openai /\ ~use_anthropic
    /\ extraction.seq = 1 /\ extraction.text = <<"", "L300">>
    /\ extraction.result.title = "L300" /\ extraction.result.summary = 200
    /\ extraction.result.description = 301
    /\ extraction.result.confidence_score = 3

(***************************************************************************)
(* Properties of the counters and the end time of the ScrapeLog row        *)
(* (under Spec).                                                           *)
(***************************************************************************)
\* the run of the row has written in_progress
InProgressWritten == \E i \in DOMAIN writes : writes[i] = "in_progress"

\* C17: once a run has entered in_progress, the total of its record is the
\* number of active sources read at the start of the run and does not change,
\* the successful and the error count never decrease, their sum is the number
\* of sources processed so far (at most the total), and at a terminal status
\* the sum is the total.  The locals of run_scrape agree with the record.
C17_Counters ==
    /\ [](InProgressWritten
            => /\ log[1].total_items = Len(sources)
               /\ log[1].successful_items + log[1].error_items = Len(outcomes)
               /\ Len(outcomes) <= log[1].total_items
               /\ log[1].status \in TerminalStatuses
                     => log[1].successful_items + log[1].error_items = log[1].total_items)
    /\ []((pc \in {"browser", "loop", "scraping"})
            => /\ InProgressWritten
               /\ total = Len(sources)
               /\ successful + errors = Len(outcomes)
               /\ pc = "loop" => /\ log[1].successful_items = successful
                                 /\ log[1].error_items = errors)
    /\ [][(InProgressWritten /\ InProgressWritten')
           => /\ log'[1].total_items = log[1].total_items
              /\ log'[1].successful_items >= log[1].successful_items
              /\ log'[1].error_items >= log[1].error_items]_vars

\* a finished run of two sources, one counted as successful and one as error
C17_Witness ==
    /\ pc = "done" /\ InProgressWritten
    /\ log[1].status = "completed_with_errors"
    /\ log[1].total_items = 2 /\ log[1].successful_items = 1 /\ log[1].error_items = 1

\* C18: the end time of a run record is set exactly when its status is
\* completed or completed_with_errors; an update with status started or
\* in_progress does not set it.
C18_EndTime ==
    /\ [](log # <<>> => (log[1].end_time # None <=> log[1].status \in TerminalStatuses))
    /\ [][(log' # log /\ log' # <<>> /\ log'[1].status \in {"started", "in_progress"})
           => log'[1].end_time = None]_vars

\* a record that was updated with in_progress and then with a terminal status
C18_Witness ==
    /\ log # <<>> /\ InProgressWritten
    /\ log[1].status \in TerminalStatuses /\ log[1].end_time = "set"

(***************************************************************************)
(* Properties of fetch_huntington_news (under SpecAgg).                    *)
(***************************************************************************)
\* the step stores a candidate of a source (a row that is not a fallback row)
CandidatePersisted ==
    \E r \in BagToSet(store') :
        r.located_by # "fixed" /\ CopiesIn(r, store') > CopiesIn(r, store)

\* C19: in the aggregation over the RSS feeds and the search API, a step
\* stores a candidate only when the candidates of all the sources have been
\* collected and the deduplicator has run over the batch of all of them.
C19_PersistAfterDedup ==
    [][CandidatePersisted => collected = AggSources /\ deduped = AggSources]_vars

(***************************************************************************)
(* The cache key of geocode (under SpecGeo).                               *)
(***************************************************************************)
\* C20: cache keys are the lowercased, trimmed input: every key of the cache
\* is in that form, a geocode call whose text, lowercased and trimmed, is a
\* key of the cache is answered from that entry, and a call answered from the
\* cache sends no provider request and leaves the last-request timestamp as
\* it was.
C20_CacheKey ==
    /\ [](\A k \in DOMAIN location_cache : k = Normalized(k))
    /\ [][(GeocodeStep /\ ~IsBlank(lastCall'.text)
             /\ Normalized(lastCall'.text) \in DOMAIN location_cache)
           => /\ lastCall'.hit
              /\ lastCall'.result = location_cache[Normalized(lastCall'.text)]]_vars
    /\ [][(GeocodeStep /\ lastCall'.hit)
           => /\ lastCall'.issued = 0
              /\ last_request_time' = last_request_time
              /\ sent_at' = sent_at]_vars

\* C21: an entry of the cache stays in the cache with the same point: no
\* geocode or reverse_geocode call (and no other step) removes a key or
\* replaces the point stored under it.
C21_CacheKept ==
    [][\A k \in DOMAIN location_cache :
           /\ k \in DOMAIN location_cache'
           /\ location_cache'[k] = location_cache[k]]_vars

\* a geocode call has sent a request and stored its answer under a new key
\* next to the entries of the predefined locations, which are as they were
C21_Witness ==
    /\ lastCall.kind = "geocode" /\ lastCall.issued = 1
    /\ LowerText(lastCall.text) \in DOMAIN location_cache
    /\ \E c \in GeoPoints :
          /\ DOMAIN InitializedCache(c) \subseteq DOMAIN location_cache
          /\ LowerText(lastCall.text) \notin DOMAIN InitializedCache(c)
          /\ \A k \in DOMAIN InitializedCache(c) : location_cache[k] = c

\* C22: with either provider, a geocode call whose request brought back
\* candidates with readable coordinates returns the first candidate the
\* provider places in New York when there is one, and the first candidate
\* otherwise.
C22_PreferredCandidate ==
    (/\ lastCall.kind = "geocode" /\ lastCall.issued = 1
     /\ lastCall.answer = "candidates" /\ ~lastCall.raised
     /\ ~Malformed(lastCall.preferred))
        => lastCall.result = lastCall.preferred

(***************************************************************************)
(* SpecParse: _extract_structured_data on the lines of a provider answer   *)
(* that is no JSON.  A line is its prefix up to the colon and the stripped *)
(* value after it; a Confidence value that float() accepts carries the     *)
(* number in tenths.                                                       *)
(***************************************************************************)
ParserLines ==
    {[prefix |-> p, value |-> "T1"] :
         p \in {"Title:", "TITLE:", "Headline:", "HEADLINE:", "Description:",
                "dEscription:", "Summary:", "SUMMARY:", "Note:"}}
    \cup {[prefix |-> "title:", value |-> "L300"]}
    \cup {[prefix |-> "Category:", value |-> "Business"],
          [prefix |-> "category:", value |-> "Politics"],
          [prefix |-> "Category:", value |-> "business"],
          [prefix |-> "CATEGORY:", value |-> "Business"]}
    \cup {[prefix |-> p, value |-> <<"a">>] : p \in {"Location:", "LOCATION:"}}
    \cup {[prefix |-> "Confidence:", value |-> "1.5", number |-> 15],
          [prefix |-> "confidence:", value |-> "-0.5", number |-> -5],
          [prefix |-> "Confidence:", value |-> "0.7", number |-> 7],
          [prefix |-> "CONFIDENCE:", value |-> "0.7", number |-> 7],
          [prefix |-> "Confidence:", value |-> "nan", number |-> NaN],
          [prefix |-> "Confidence:", value |-> "high"]}

notParse ==
    <<pipeVars, dedupVars, geoVars, webVars, rssVars, extraction, aggVars, twoVars,
      commits, raceVars, rss_call>>

ParseAnswer ==
    /\ \E lines \in SeqsUpTo(ParserLines, MaxLines), source_url \in {"u1"} :
          parse' = [seq |-> 1, lines |-> lines,
                    result |-> _extract_structured_data(lines, source_url)]
    /\ UNCHANGED notParse

InitParse ==
    /\ IdlePipeline
    /\ IdleDedup
    /\ IdleGeo
    /\ IdleMore

NextParse == ParseAnswer

SpecParse == InitParse /\ [][NextParse]_vars

(***************************************************************************)
(* SpecTwo: two Geolocator instances in one process image.  The attributes *)
(* location_cache and last_request_time are set on self in __init__; the   *)
(* clock is the one clock of the machine.                                  *)
(***************************************************************************)
notTwo ==
    <<pipeVars, dedupVars, google_api_key, location_cache, last_request_time,
      lastCall, sent_at, webVars, rssVars, extraction, aggVars, parse, commits,
      raceVars, rss_call>>

\* variant: the attributes are attributes of the class
SetAttrs_class(heap, self, attrs) == [g \in DOMAIN heap |-> attrs]

\* self.location_cache[...] = ..., self.last_request_time = ...
SetAttrs(heap, self, attrs) == [heap EXCEPT ![self] = attrs]

TwoTexts == {<<"a">>, <<"A">>, <<"A", "N">>}

\* geocode on one of the instances
GeocodeOn ==
    \E self \in Instances, location_text \in TwoTexts :
    \E data \in {d \in ProviderAnswers : Len(d.results) <= 1} :
        LET r == geocode(google_api_key, geolocators[self].location_cache,
                         geolocators[self].last_request_time, now, location_text, data)
        IN  /\ r.now <= MaxTime
            /\ geolocators' = SetAttrs(geolocators, self,
                                       [location_cache |-> r.cache,
                                        last_request_time |-> r.last])
            /\ now' = r.now
            /\ lastOp' = [seq |-> 1 - lastOp.seq, self |-> self, kind |-> "geocode",
                          issued |-> r.issued, slept |-> r.now - now]
            /\ UNCHANGED notTwo

\* reverse_geocode on one of the instances
ReverseGeocodeOn ==
    \E self \in Instances :
        LET wake == _respect_rate_limit(geolocators[self].last_request_time, now)
        IN  /\ wake <= MaxTime
            /\ geolocators' = SetAttrs(geolocators, self,
                                       [location_cache |-> geolocators[self].location_cache,
                                        last_request_time |-> wake])
            /\ now' = wake
            /\ lastOp' = [seq |-> 1 - lastOp.seq, self |-> self,
                          kind |-> "reverse_geocode", issued |-> 1, slept |-> wake - now]
            /\ UNCHANGED notTwo

InitTwo ==
    /\ google_api_key \in BOOLEAN
    /\ location_cache = EmptyCache /\ last_request_time = 0 /\ now = 0
    /\ lastCall = NoCall /\ sent_at = 0
    /\ IdlePipeline
    /\ IdleDedup
    /\ IdleMore

NextTwo ==
    \/ GeocodeOn
    \/ ReverseGeocodeOn
    \/ Tick

SpecTwo == InitTwo /\ [][NextTwo]_vars

(***************************************************************************)
(* SpecRace: geocode called by two request handlers at once on the         *)
(* Geolocator of main.py (line 50).  Each handler runs in a thread of its  *)
(* own; a thread can be preempted between any two statements of            *)
(* _respect_rate_limit (geolocation.py 296-313), which takes no lock.  The *)
(* texts are not in the cache, so every call goes to the provider.         *)
(***************************************************************************)
notRace ==
    <<pipeVars, dedupVars, google_api_key, location_cache, lastCall, sent_at,
      webVars, rssVars, extraction, aggVars, parse, twoVars, commits, rss_call>>

MaxRequests == 3

\* line 305: current_time = time.time(), at the start of a call
ReadClock ==
    \E t \in Threads :
        /\ callers[t].pc = "idle"
        /\ Len(requests) + Cardinality({u \in Threads : callers[u].pc # "idle"}) < MaxRequests
        /\ callers' = [callers EXCEPT ![t] = [pc |-> "check", current_time |-> now,
                                              wake |-> 0]]
        /\ UNCHANGED <<last_request_time, now, requests>>
        /\ UNCHANGED notRace

\* lines 306-310: elapsed against the attribute as it is now; time.sleep for
\* the rest of the interval
ReadLast ==
    \E t \in Threads :
        /\ callers[t].pc = "check"
        /\ LET elapsed == callers[t].current_time - last_request_time
           IN  callers' = [callers EXCEPT ![t] =
                              IF elapsed < min_request_interval
                              THEN [pc |-> "sleep", current_time |-> callers[t].current_time,
                                    wake |-> now + (min_request_interval - elapsed)]
                              ELSE [pc |-> "write", current_time |-> callers[t].current_time,
                                    wake |-> 0]]
        /\ UNCHANGED <<last_request_time, now, requests>>
        /\ UNCHANGED notRace

\* time.sleep returns
Wake ==
    \E t \in Threads :
        /\ callers[t].pc = "sleep"
        /\ now >= callers[t].wake
        /\ callers' = [callers EXCEPT ![t].pc = "write"]
        /\ UNCHANGED <<last_request_time, now, requests>>
        /\ UNCHANGED notRace

\* line 313 and the request that follows it (requests.get, 155 or 212)
WriteAndSend ==
    \E t \in Threads :
        /\ callers[t].pc = "write"
        /\ last_request_time' = now
        /\ requests' = Append(requests, now)
        /\ callers' = [callers EXCEPT ![t] = IdleCaller]
        /\ UNCHANGED now
        /\ UNCHANGED notRace

InitRace ==
    /\ google_api_key \in BOOLEAN
    /\ location_cache = EmptyCache /\ last_request_time = 0 /\ now = 0
    /\ lastCall = NoCall /\ sent_at = 0
    /\ IdlePipeline
    /\ IdleDedup
    /\ IdleMore

NextRace ==
    \/ ReadClock
    \/ ReadLast
    \/ Wake
    \/ WriteAndSend
    \/ Tick

SpecRace == InitRace /\ [][NextRace]_vars

(***************************************************************************)
(* SpecSave: fetch_from_rss_feeds (news_scraper.py 456-520) call by call,  *)
(* on a table that may already hold a row with the title and URL of an     *)
(* article.  db.commit() can fail at any article.                          *)
(***************************************************************************)
notSave ==
    <<aiVars, runVars, dedupVars, geoVars, webVars, rssVars, extraction, aggVars,
      parse, twoVars, raceVars>>

MaxSaved == 2

\* the articles of the RSS service: those of the pipeline and one of another feed
SavedArticles ==
    RssArticles \cup
    [title : {<<W("x"), W("y")>>}, source_url : {"u2"}, category : {"News"},
     latitude : {"40.8676"}, longitude : {"-73.4257"}]

\* tables a call can find: empty, or with a row a scrape run stored for the
\* story of an article
TablesBefore ==
    {EmptyBag} \cup
    {SetToBag({NewsItem(a.title, a.category, <<a.latitude, a.longitude>>,
                        a.source_url, "extracted")}) : a \in SavedArticles}

FetchRss ==
    /\ \E arts \in SeqsUpTo(SavedArticles, MaxSaved), huntington \in BOOLEAN :
       LET given == IF huntington THEN _remove_duplicates(arts) ELSE arts
       IN  \E commit_fails \in 0..Len(given) :
              LET rss == fetch_from_rss_feeds(store, given, commit_fails)
              IN  /\ store' = rss.store
                  /\ commits' = commits + rss.commits
                  /\ rss_call' = [seq |-> 1 - rss_call.seq, articles |-> given,
                                  commit_fails |-> commit_fails, returned |-> rss.ret,
                                  raised |-> rss.raised]
    /\ UNCHANGED notSave

InitSave ==
    /\ use_openai = FALSE /\ use_anthropic = FALSE
    /\ store \in TablesBefore
    /\ IdleRun
    /\ IdleDedup
    /\ IdleGeo
    /\ IdleMore

NextSave == FetchRss

SpecSave == InitSave /\ [][NextSave]_vars

\* the field a line prefix names when letter case is disregarded
PrefixInAnyCase(prefix) ==
    CASE prefix \in {"Title:", "title:", "TITLE:"} -> "title"
      [] prefix \in {"Headline:", "headline:", "HEADLINE:"} -> "headline"
      [] prefix \in {"Description:", "description:", "dEscription:"} -> "description"
      [] prefix \in {"Summary:", "summary:", "SUMMARY:"} -> "summary"
      [] prefix \in {"Category:", "category:", "CATEGORY:"} -> "category"
      [] prefix \in {"Location:", "location:", "LOCATION:"} -> "location"
      [] prefix \in {"Confidence:", "confidence:", "CONFIDENCE:"} -> "confidence"
      [] OTHER -> "none"

\* the lines of an answer that name the field, in any letter case
Named(lines, field) == {i \in DOMAIN lines : PrefixInAnyCase(lines[i].prefix) = field}

\* the value of the last line that names the field
LastValue(lines, field) ==
    lines[CHOOSE i \in Named(lines, field) : \A j \in Named(lines, field) : j <= i].value

\* the Confidence lines whose value is a float
Parsed(lines) == {i \in Named(lines, "confidence") : "number" \in DOMAIN lines[i]}

\* C23: the line-prefix parser recognises the Title, Headline, Description,
\* Summary, Category, Location and Confidence prefixes in any letter case (the
\* last line of a field gives its value), turns a category outside the five
\* enum values into News, keeps a parsed confidence within [0, 1] by clamping
\* it, and keeps the default confidence 0.5 when no value parses.
C23_HeuristicParser ==
    parse.seq = 1 =>
        LET lines == parse.lines
            result == parse.result
        IN  /\ \A f \in {"title", "headline", "location"} :
                   Named(lines, f) # {} => result[f] = LastValue(lines, f)
            /\ \A f \in {"description", "summary"} :
                   Named(lines, f) # {} => result[f] = Chars(LastValue(lines, f))
            /\ Named(lines, "category") # {}
                   => result.category =
                          IF LastValue(lines, "category") \in valid_categories
                          THEN LastValue(lines, "category") ELSE "News"
            /\ result.category \in valid_categories
            /\ result.confidence_score \in 0..10
            /\ \A i \in Parsed(lines) :
                   (\A j \in Parsed(lines) : j <= i)
                       => result.confidence_score =
                              IF lines[i].number < 0 THEN 0
                              ELSE IF lines[i].number > 10 THEN 10
                              ELSE lines[i].number
            /\ Parsed(lines) = {} => result.confidence_score = 5

\* a call (of either kind) on one of the two instances
CallStep == lastOp'.seq # lastOp.seq

\* C24: a call on one Geolocator instance leaves the cache and the
\* last-request timestamp of the other instance as they were, and the time
\* the call waits for the rate limit is determined by the instance's own
\* timestamp: it is the rest of the interval since that instance's last
\* request, whatever the other instance has requested in the meantime.
C24_Instances ==
    [][CallStep =>
          LET self == lastOp'.self
              own == geolocators[self].last_request_time
          IN  /\ \A g \in Instances \ {self} : geolocators'[g] = geolocators[g]
              /\ lastOp'.slept =
                     IF lastOp'.issued = 1 /\ now - own < min_request_interval
                     THEN min_request_interval - (now - own) ELSE 0]_vars

\* the worker's instance has sent a request without waiting, less than the
\* interval after a request of the main instance
C24_Witness ==
    /\ lastOp.self = "worker" /\ lastOp.issued = 1 /\ lastOp.slept = 0
    /\ geolocators["main"].last_request_time > 0
    /\ geolocators["worker"].last_request_time
           - geolocators["main"].last_request_time < min_request_interval
    /\ geolocators["worker"].last_request_time
           >= geolocators["main"].last_request_time
    /\ geolocators["main"].location_cache # geolocators["worker"].location_cache

(***************************************************************************)
(* Properties of the writes to news_items (under Spec).                    *)
(***************************************************************************)
\* the rows of the table that fetch_huntington_news made up
FixedRows(st) == BagCardinality(st) - Fetched(st)

\* C25 as stated: every step of run_scrape, fetch_from_rss_feeds,
\* fetch_from_newsapi and fetch_huntington_news leaves each row of the table
\* in the table (none deleted, none changed), and each row was written by a
\* commit of its own.
C25_OneCommitPerRecord ==
    /\ [][store \sqsubseteq store']_vars
    /\ [](BagCardinality(store) = commits)

\* C25: every step of run_scrape, fetch_from_rss_feeds, fetch_from_newsapi and
\* fetch_huntington_news leaves each row of the table in the table (none
\* deleted, none changed); each row that came from a feed, a page or the
\* search API was written by a commit of its own, and the five rows that
\* fetch_huntington_news makes up are written by one commit together.
C25_AppendOnly ==
    /\ [][store \sqsubseteq store']_vars
    /\ [](/\ FixedRows(store) % Len(fallback_items) = 0
          /\ commits = Fetched(store) + FixedRows(store) \div Len(fallback_items))

\* the table holds two rows that came from outside and the made-up rows, and
\* three commits wrote them
C25_Witness ==
    /\ Fetched(store) = 2
    /\ FixedRows(store) = Len(fallback_items)
    /\ commits = 3

(***************************************************************************)
(* Termination of a run (under SpecLive).                                  *)
(***************************************************************************)
\* C26: a run whose row was created with status started eventually has the
\* status completed or completed_with_errors and its end time set, whatever
\* fails inside run_scrape.
C26_RunEnds ==
    (pc = "started")
        ~> (/\ pc = "done"
            /\ log # <<>>
            /\ log[1].status \in TerminalStatuses
            /\ log[1].end_time # None)

(***************************************************************************)
(* The rate limit under concurrent callers (under SpecRace).               *)
(***************************************************************************)
\* C27: any two provider requests of the shared Geolocator are at least the
\* minimum interval apart, also when request handlers call geocode at the
\* same time.
C27_IntervalUnderConcurrency ==
    \A i, j \in DOMAIN requests :
        i < j => requests[j] - requests[i] >= min_request_interval

(***************************************************************************)
(* The result of _remove_duplicates as a whole (under SpecDedup).          *)
(***************************************************************************)
\* _titles_are_similar on the titles of two articles, as _remove_duplicates
\* calls it
SimilarArticles(a1, a2) ==
    _titles_are_similar(simple_title(a1.title), simple_title(a2.title))

\* the ways of reading kept as a subsequence of batch: the positions of batch,
\* in increasing order, at which the articles of kept stand
Selections(kept, batch) ==
    {f \in [DOMAIN kept -> DOMAIN batch] :
        /\ \A i, j \in DOMAIN kept : i < j => f[i] < f[j]
        /\ \A i \in DOMAIN kept : kept[i] = batch[f[i]]}

\* C28: what _remove_duplicates returns is a subsequence of its input in the
\* input's order; no two returned articles have titles that
\* _titles_are_similar judges similar; every article left out is similar to
\* a returned article that stands before it in the input; and
\* _remove_duplicates applied to the returned list returns it unchanged.
C28_Deduplicated ==
    dedup_pc = "done" =>
        /\ \E f \in Selections(unique_articles, articles) :
              \A k \in DOMAIN articles :
                  (\A i \in DOMAIN unique_articles : f[i] # k)
                      => \E i \in DOMAIN unique_articles :
                            /\ f[i] < k
                            /\ SimilarArticles(articles[k], unique_articles[i])
        /\ \A i, j \in DOMAIN unique_articles :
              i # j => ~SimilarArticles(unique_articles[i], unique_articles[j])
        /\ _remove_duplicates(unique_articles) = unique_articles

\* a batch of three whose second article is left out for the first one and
\* whose third is kept
C28_Witness ==
    /\ dedup_pc = "done" /\ Len(articles) = 3
    /\ unique_articles = <<articles[1], articles[3]>>
    /\ articles[2].title # articles[1].title
    /\ SimilarArticles(articles[2], articles[1])
    /\ ~SimilarArticles(articles[2], articles[3])

(***************************************************************************)
(* Runs without a text-understanding provider (under Spec).                *)
(***************************************************************************)
NoProvider == ~use_openai /\ ~use_anthropic

\* run_scrape is between its first and its last statement
Running == pc \notin {"idle", "done", "crashed"}

\* no step of a run adds a row, and every source the run has processed gave
\* no item and is counted as an error
NothingFromSources ==
    /\ [][(NoProvider /\ Running) => store' = store]_vars
    /\ []((NoProvider /\ log # <<>>)
            => /\ \A i \in DOMAIN outcomes : outcomes[i].saved = 0
               /\ log[1].successful_items = 0
               /\ Running => log[1].error_items = Len(outcomes))

\* C29 as stated: with no provider configured a run persists no record from
\* its sources, every source is counted as an error, and the run ends
\* completed_with_errors.
C29_EndsWithErrors ==
    /\ NothingFromSources
    /\ []((NoProvider /\ pc = "done")
            => /\ log[1].status = "completed_with_errors"
               /\ log[1].error_items = log[1].total_items)

\* C29: with no provider configured a run persists no record from its
\* sources and every source is counted as an error; a run over at least one
\* active source that reaches its end ends completed_with_errors, a run that
\* finds no active source ends completed.
C29_NoProviderRun ==
    /\ NothingFromSources
    /\ []((NoProvider /\ pc = "done")
            => /\ log[1].status = IF log[1].total_items > 0
                                  THEN "completed_with_errors" ELSE "completed"
               /\ log[1].error_items = log[1].total_items)

\* a finished run without provider over two sources, one of which delivered
\* an entry that was processed
C29_Witness ==
    /\ NoProvider /\ pc = "done"
    /\ log[1].status = "completed_with_errors"
    /\ log[1].total_items = 2 /\ log[1].error_items = 2
    /\ \E i \in DOMAIN outcomes :
          ~outcomes[i].raised /\ outcomes[i].considered > 0 /\ outcomes[i].saved = 0

=============================================================================
